---- MODULE Spec2Model ----
(***************************************************************************)
(* Supply-Bot: the task orchestration and agent coordination core.         *)
(*                                                                         *)
(*   - the negotiation worker (DiplomatAgent), the follow-up route of the  *)
(*     REST server and the expiry check of the diplomat runner;            *)
(*   - the orchestrator: the Bull priority queue, processTask, the         *)
(*     procurement cycle and auto-reorder;                                 *)
(*   - the price-scan worker (ScoutAgent.scanSupplier).                    *)
(*                                                                         *)
(* Money is in whole currency units; the price-improvement target is kept  *)
(* in per mille so that the comparison of evaluateCounterOffer is exact.   *)
(* The persistent store is taken to be reliable except where an action     *)
(* draws a failure explicitly (mail transport, language-model call,        *)
(* adapter call, the activity-log insert of processTask).                  *)
(***************************************************************************)
EXTENDS Integers, Sequences, FiniteSets, TLC

VARIABLES
    negotiations,   \* Negotiation rows, keyed by position (the negotiation id)
    outbox,         \* per negotiation: emails handed to the mail transport
    last,           \* the last worker/route call: its inputs and its Result
    jobs,           \* the Bull queue 'agent-tasks': its jobs, by job id
    agentTasks,     \* AgentTask rows
    activityLog,    \* ActivityLog rows
    cyclePc,        \* runProcurementCycle: how many of its tasks are enqueued
    inventoryItems, \* InventoryItem rows
    supplierProducts, \* SupplierProduct rows, by <<supplier id, product id>>
    priceHistory,   \* PriceHistory rows
    scrapingJobs,   \* ScrapingJob rows
    scan,           \* the scanSupplier call in progress, or the last one made
    activeSuppliers, \* ids of the Supplier rows with isActive
    scanAll,        \* the scanAllSuppliers call in progress, or the last one made
    statusRequest,  \* the status request in progress, or the last one served
    strategist,     \* the last StrategistAgent call: its inputs and its result
    stockCheck,     \* the last checkStock call: its inputs and its result
    responders,  \* the process_response handlers in flight, by worker
    scanners,  \* the scanSupplier calls in flight side by side
    portal,  \* PortalAutomationService: its context map, browser, calls in flight
    runner,  \* the Diplomat runner process: where it is, its timer ticks
    stockoutPredictions   \* StockoutPrediction rows

negVars == <<negotiations, outbox, last>>
queueVars == <<jobs, agentTasks, activityLog, cyclePc>>
batchVars == <<activeSuppliers, scanAll>>
extraVars == <<responders, scanners, portal, runner, stockoutPredictions>>
sideVars == <<statusRequest, strategist, stockCheck, extraVars>>
portalRest == <<negVars, queueVars, inventoryItems, supplierProducts, priceHistory,
                scrapingJobs, scan, batchVars, statusRequest, strategist, stockCheck,
                responders, scanners, runner, stockoutPredictions>>
runnerRest == <<queueVars, inventoryItems, supplierProducts, priceHistory, scrapingJobs,
                scan, batchVars, statusRequest, strategist, stockCheck, responders,
                scanners, portal, stockoutPredictions>>
forecastRest == <<negotiations, outbox, queueVars, inventoryItems, supplierProducts,
                  priceHistory, scrapingJobs, scan, batchVars, statusRequest, strategist,
                  stockCheck, responders, scanners, portal, runner>>
dataVars == <<negotiations, outbox, last, jobs, agentTasks, activityLog, cyclePc,
              inventoryItems, supplierProducts, priceHistory, scrapingJobs, scan,
              activeSuppliers, scanAll>>
storeVars == <<inventoryItems, supplierProducts, priceHistory, scrapingJobs, scan,
               batchVars, sideVars>>
vars == <<negotiations, outbox, last, jobs, agentTasks, activityLog, cyclePc,
          inventoryItems, supplierProducts, priceHistory, scrapingJobs, scan,
          activeSuppliers, scanAll, statusRequest, strategist, stockCheck,
          responders, scanners, portal, runner, stockoutPredictions>>

----------------------------------------------------------------------------
(* Configuration and bounds *)

\* config.agents.diplomat.maxNegotiationRounds
MaxNegotiationRounds == 3
\* config.agents.diplomat.priceImprovementTarget, 0.05, in per mille
PriceImprovementTargetPermille == 50

\* at most this many supplier replies are processed in all
MaxInbound == 2
\* at most this many follow-up messages are posted in all
MaxFollowUps == 1

----------------------------------------------------------------------------
(* Sequence helpers *)

RECURSIVE SumSeq(_)
SumSeq(s) == IF s = <<>> THEN 0 ELSE Head(s) + SumSeq(Tail(s))

\* the outbound, inbound and follow-up messages of a message list
IsOutbound(m) == m.direction = "outbound"
IsInbound(m) == m.direction = "inbound"
IsFollowUp(m) == m.kind = "followup"
CountOutbound(s) == Cardinality({i \in 1..Len(s) : IsOutbound(s[i])})
CountInbound(s) == Cardinality({i \in 1..Len(s) : IsInbound(s[i])})
CountFollowUps(s) == Cardinality({i \in 1..Len(s) : IsFollowUp(s[i])})

----------------------------------------------------------------------------
(* Negotiation worker: data *)

Terminal == {"accepted", "rejected", "expired"}

\* supplier.supplierProducts: productId -> unit price (sku = productId)
SupplierCatalog == [A |-> 40, B |-> 100]
CatalogIds == DOMAIN SupplierCatalog

\* payload.products of initiate_negotiation; "X" is a product the supplier
\* does not list
PayloadChoices ==
    { << [productId |-> "B", quantity |-> 2], [productId |-> "A", quantity |-> 1] >>,
      << [productId |-> "X", quantity |-> 1] >> }

\* A counter-offer as the classifier returns it: sku -> quoted price, 0 where
\* the sku is not quoted (counterOffer[sku] is undefined or 0: both falsy).
\* Against 2 x B at 100 and 1 x A at 40 (total 240) these save 6 (exactly
\* 2.5%), 5, -1 and 0.
CounterOfferChoices ==
    { [A |-> 0, B |-> 97], [A |-> 39, B |-> 98], [A |-> 41, B |-> 0], [A |-> 0, B |-> 0] }

\* What the classification model call yields: it throws, it returns text
\* that is not JSON, or it returns the JSON object asked for.
LlmJson ==
    [kind : {"json"}, accepted : BOOLEAN, rejected : BOOLEAN,
     hasCounter : BOOLEAN, counterOffer : CounterOfferChoices]
NoPrices == [A |-> 0, B |-> 0]
LlmOutputs ==
    { j \in LlmJson : j.hasCounter \/ j.counterOffer = NoPrices }
    \cup { [kind |-> k, accepted |-> FALSE, rejected |-> FALSE,
            hasCounter |-> FALSE, counterOffer |-> NoPrices] : k \in {"throws", "garbage"} }

NoLlm == [kind |-> "none", accepted |-> FALSE, rejected |-> FALSE,
          hasCounter |-> FALSE, counterOffer |-> NoPrices]

NoCall == [op |-> "none", neg |-> 0, success |-> TRUE, threw |-> FALSE,
           outcome |-> "none", statusBefore |-> "none", outboundBefore |-> 0,
           llm |-> NoLlm, mail |-> "none"]

----------------------------------------------------------------------------
(* Negotiation worker: pure functions *)

\* initiateNegotiation: products = payload.products.map(...)
BuildProduct(p) ==
    IF p.productId \in CatalogIds
    THEN [sku |-> p.productId, quantity |-> p.quantity,
          currentPrice |-> SupplierCatalog[p.productId]]
    ELSE [sku |-> "", quantity |-> p.quantity, currentPrice |-> 0]

BuildProducts(payload) == [i \in 1..Len(payload) |-> BuildProduct(payload[i])]

\* counterOffer?.products?.[sku] || counterOffer?.[sku] || product.currentPrice
CounterPrice(counterOffer, product) ==
    IF product.sku \in DOMAIN counterOffer /\ counterOffer[product.sku] # 0
    THEN counterOffer[product.sku]
    ELSE product.currentPrice

TotalOriginal(products) ==
    SumSeq([i \in 1..Len(products) |-> products[i].currentPrice * products[i].quantity])

TotalCounter(counterOffer, products) ==
    SumSeq([i \in 1..Len(products) |->
               CounterPrice(counterOffer, products[i]) * products[i].quantity])

ActualSavings(counterOffer, products) ==
    TotalOriginal(products) - TotalCounter(counterOffer, products)

\* savingsPercent >= targetImprovement * 0.5, with savingsPercent = 0 when
\* totalOriginal is 0
Acceptable(counterOffer, products) ==
    IF TotalOriginal(products) > 0
    THEN 2000 * ActualSavings(counterOffer, products)
             >= PriceImprovementTargetPermille * TotalOriginal(products)
    ELSE FALSE

evaluateCounterOffer(counterOffer, products) ==
    [acceptable |-> Acceptable(counterOffer, products),
     actualSavings |-> ActualSavings(counterOffer, products)]

\* round = outbound messages of the snapshot + 1
OutboundCount(neg) == CountOutbound(neg.messages)
\* a round counted from the replies handled so far
RoundFromReplies(neg) == CountInbound(neg.messages) + 1

\* round: the outbound messages of the loaded message list, plus one
Round(neg) == OutboundCount(neg) + 1

\* analyzeResponse: JSON.parse of the model's text; a parse failure gives
\* {accepted:false, rejected:false}; a failed model call throws (the await
\* is outside the try).
analyzeResponse(llm, neg) ==
    CASE llm.kind = "throws" ->
            [threw |-> TRUE, accepted |-> FALSE, rejected |-> FALSE,
             hasCounter |-> FALSE, counterOffer |-> NoPrices, savings |-> 0]
      [] llm.kind = "garbage" ->
            [threw |-> FALSE, accepted |-> FALSE, rejected |-> FALSE,
             hasCounter |-> FALSE, counterOffer |-> NoPrices, savings |-> 0]
      [] OTHER ->
            [threw |-> FALSE, accepted |-> llm.accepted, rejected |-> llm.rejected,
             hasCounter |-> llm.hasCounter, counterOffer |-> llm.counterOffer,
             savings |-> IF llm.accepted /\ llm.hasCounter
                         THEN ActualSavings(llm.counterOffer, neg.products)
                         ELSE 0]

----------------------------------------------------------------------------
(* Negotiation worker: operations *)

Msg(direction, kind) == [direction |-> direction, kind |-> kind]

NewNegotiation(products) ==
    [status |-> "in_progress", products |-> products, messages |-> <<>>,
     counterOffers |-> <<>>, hasFinalTerms |-> FALSE, savings |-> 0,
     completed |-> FALSE, expiryPassed |-> FALSE]

NoMail == [initial |-> 0, counter |-> 0, acceptance |-> 0]

\* a handler whose catch block rethrows instead of returning a Result
Rethrown(outcome) == [success |-> FALSE, threw |-> TRUE, outcome |-> outcome]

\* AgentResult values: a handler returns { success: true, data }, returns
\* { success: false, error } itself, or its catch block turns a thrown error
\* into { success: false, error: error.message }.
Ok(outcome) == [success |-> TRUE, threw |-> FALSE, outcome |-> outcome]
Fail(outcome) == [success |-> FALSE, threw |-> FALSE, outcome |-> outcome]
Caught(outcome) == [success |-> FALSE, threw |-> FALSE, outcome |-> outcome]

\* mail: "sent" when the call handed an email to the transport, "failed"
\* when the transport refused it, "none" when it sent nothing
Call(op, n, llm, res, mail) ==
    [op |-> op, neg |-> n, success |-> res.success, threw |-> res.threw,
     outcome |-> res.outcome,
     statusBefore |-> IF n \in 1..Len(negotiations) THEN negotiations[n].status ELSE "none",
     outboundBefore |-> IF n \in 1..Len(negotiations) THEN OutboundCount(negotiations[n]) ELSE 0,
     llm |-> llm, mail |-> mail]

TotalInbound ==
    SumSeq([n \in 1..Len(negotiations) |-> CountInbound(negotiations[n].messages)])

TotalFollowUps ==
    SumSeq([n \in 1..Len(negotiations) |-> CountFollowUps(negotiations[n].messages)])

\* DiplomatAgent.initiateNegotiation. lookup: what the organization/supplier
\* reads return; llmOk: the email-drafting model call returns; sendOk: the
\* mail transport accepts the email.
InitiateNegotiation(payload, lookup, llmOk, sendOk) ==
    /\ LET id == Len(negotiations) + 1
           created == NewNegotiation(BuildProducts(payload))
       IN  IF lookup # "ok"
           THEN /\ last' = Call("initiate_negotiation", 0, NoLlm, Fail(lookup), "none")
                /\ UNCHANGED <<negotiations, outbox>>
           ELSE IF ~llmOk
           THEN /\ last' = Call("initiate_negotiation", 0, NoLlm, Caught("error"), "none")
                /\ UNCHANGED <<negotiations, outbox>>
           ELSE IF ~sendOk
           THEN \* the record is created before the send is attempted
                /\ negotiations' = Append(negotiations, created)
                /\ outbox' = Append(outbox, NoMail)
                /\ last' = Call("initiate_negotiation", id, NoLlm, Caught("error"), "failed")
           ELSE /\ negotiations' = Append(negotiations,
                        [created EXCEPT !.messages = << Msg("outbound", "initial") >>])
                /\ outbox' = Append(outbox, [NoMail EXCEPT !.initial = 1])
                /\ last' = Call("initiate_negotiation", id, NoLlm, Ok("initiated"), "sent")

\* DiplomatAgent.processNegotiationResponse. llm: what the classification
\* call yields; genOk: the counter-email drafting call returns; sendOk: the
\* mail transport accepts the email.
ProcessNegotiationResponse(n, llm, genOk, sendOk) ==
    IF n \notin 1..Len(negotiations)
    THEN \* 'Negotiation not found': the classifier is never called
         /\ last' = Call("process_response", n, NoLlm, Fail("not_found"), "none")
         /\ UNCHANGED <<negotiations, outbox>>
    ELSE
    /\ TotalInbound < MaxInbound
    /\ LET neg == negotiations[n]
           logged == [neg EXCEPT !.messages = Append(@, Msg("inbound", "reply"))]
           analysis == analyzeResponse(llm, neg)
           round == Round(neg)
           eval == evaluateCounterOffer(analysis.counterOffer, neg.products)
           Done(row, sent, res, mail) ==
               /\ negotiations' = [negotiations EXCEPT ![n] = row]
               /\ outbox' = [outbox EXCEPT ![n] = sent]
               /\ last' = Call("process_response", n, llm, res, mail)
       IN  IF analysis.threw
           THEN Done(logged, outbox[n], Caught("error"), "none")
           ELSE IF analysis.accepted
           THEN Done([logged EXCEPT !.status = "accepted",
                                    !.hasFinalTerms = analysis.hasCounter,
                                    !.savings = analysis.savings,
                                    !.completed = TRUE],
                     outbox[n], Ok("accepted"), "none")
           ELSE IF analysis.rejected
           THEN Done([logged EXCEPT !.status = "rejected", !.completed = TRUE],
                     outbox[n], Ok("rejected"), "none")
           ELSE IF analysis.hasCounter /\ round < MaxNegotiationRounds
           THEN IF eval.acceptable
                THEN \* the update precedes the acceptance email
                     LET row == [logged EXCEPT !.status = "accepted",
                                               !.hasFinalTerms = TRUE,
                                               !.savings = eval.actualSavings,
                                               !.completed = TRUE,
                                               !.counterOffers = Append(@, analysis.counterOffer)]
                     IN IF sendOk
                        THEN Done(row, [outbox[n] EXCEPT !.acceptance = @ + 1],
                                  Ok("accepted"), "sent")
                        ELSE Done(row, outbox[n], Caught("error"), "failed")
                ELSE IF ~genOk
                     THEN Done(logged, outbox[n], Caught("error"), "none")
                     ELSE IF ~sendOk
                     THEN Done(logged, outbox[n], Caught("error"), "failed")
                     ELSE Done([logged EXCEPT !.messages = Append(@, Msg("outbound", "counter")),
                                              !.counterOffers = Append(@, analysis.counterOffer)],
                               [outbox[n] EXCEPT !.counter = @ + 1],
                               Ok("counter_sent"), "sent")
           ELSE \* "Max rounds reached - make final decision"
                IF analysis.hasCounter /\ eval.acceptable
                THEN Done([logged EXCEPT !.status = "accepted",
                                         !.hasFinalTerms = TRUE,
                                         !.savings = eval.actualSavings,
                                         !.completed = TRUE],
                          outbox[n], Ok("accepted"), "none")
                ELSE Done([logged EXCEPT !.status = "expired", !.completed = TRUE],
                          outbox[n], Ok("no_agreement"), "none")

\* POST /api/negotiations/:id/messages
PostNegotiationMessage(n) ==
    /\ n \in 1..Len(negotiations)
    /\ TotalFollowUps < MaxFollowUps
    /\ negotiations' = [negotiations EXCEPT
            ![n].messages = Append(@, Msg("outbound", "followup")),
            ![n].status = "in_progress"]
    /\ last' = Call("post_message", n, NoLlm, Ok("created"), "none")
    /\ UNCHANGED outbox

\* the stored expiresAt of negotiation n passes
ClockPassesExpiry(n) ==
    /\ n \in 1..Len(negotiations)
    /\ ~negotiations[n].expiryPassed
    /\ negotiations' = [negotiations EXCEPT ![n].expiryPassed = TRUE]
    /\ UNCHANGED <<outbox, last>>

\* runDiplomat: the expiry check over the in_progress negotiations
RunDiplomat ==
    /\ \E n \in 1..Len(negotiations) :
            negotiations[n].status = "in_progress" /\ negotiations[n].expiryPassed
    /\ negotiations' =
            [n \in 1..Len(negotiations) |->
                IF negotiations[n].status = "in_progress" /\ negotiations[n].expiryPassed
                THEN [negotiations[n] EXCEPT !.status = "expired", !.completed = TRUE]
                ELSE negotiations[n]]
    /\ last' = Call("run_diplomat", 0, NoLlm, Ok("checked"), "none")
    /\ UNCHANGED outbox

----------------------------------------------------------------------------
(* Orchestrator: the queue and processTask *)

\* defaultJobOptions.attempts
QueueAttempts == 3
\* defaultJobOptions.backoff.delay, exponential
BackoffDelayMs == 5000
\* priority: task.priority || 5
DefaultPriority == 5

\* queue worker processes pulling from the queue (each with concurrency 1)
NumWorkers == 1
\* at most this many tasks are enqueued besides those of the procurement cycle
MaxAdHocJobs == 1
\* at most this many attempts, over all jobs, end with processTask throwing
MaxFailedAttempts == 3

Agents == {"scout", "strategist", "diplomat"}

\* the cases of each worker's switch (task.type)
KnownTypes(agent) ==
    CASE agent = "scout" ->
            {"scan_supplier", "scan_all_suppliers", "check_stock", "compare_prices"}
      [] agent = "strategist" ->
            {"analyze_inventory", "predict_stockouts", "analyze_demand",
             "optimize_reorder_points", "generate_reorder_suggestions"}
      [] agent = "diplomat" ->
            {"initiate_negotiation", "process_response", "request_quote",
             "negotiate_bulk_order", "expedite_order"}
      [] OTHER -> {}

Task(agent, type, payload, negId, priority) ==
    [agentType |-> agent, taskType |-> type, payload |-> payload,
     negId |-> negId, priority |-> priority,
     organizationId |-> "none", supplierId |-> "none"]

\* runProcurementCycle: its queueTask calls, in order
CyclePlan ==
    << Task("scout", "scan_all_suppliers", <<>>, 0, 1),
       Task("strategist", "analyze_inventory", <<>>, 0, 2),
       Task("strategist", "predict_stockouts", <<>>, 0, 2),
       Task("strategist", "generate_reorder_suggestions", <<>>, 0, 3) >>

\* tasks enqueued from outside the cycle (API, CLI, auto-reorder); priority 0
\* stands for a task that sets none. full_scan is the task type the scout
\* test uses, "courier" an agent type the orchestrator does not know.
OtherTasks ==
    { Task("scout", "full_scan", <<>>, 0, 1),
      Task("courier", "deliver", <<>>, 0, 0) }

DiplomatTasks ==
    { Task("diplomat", "initiate_negotiation",
           << [productId |-> "B", quantity |-> 2], [productId |-> "A", quantity |-> 1] >>,
           0, 2),
      Task("diplomat", "process_response", <<>>, 1, 1) }

AdHocTasks == OtherTasks \cup DiplomatTasks

\* the classifier outputs a queued process_response job is run against: the
\* call throws, or it returns JSON that accepts, that counters with a saving
\* below the threshold, or that does neither
QueueReplies ==
    { l \in LlmOutputs :
        \/ l.kind = "throws"
        \/ /\ l.kind = "json"
           /\ ~l.rejected
           /\ l.accepted => ~l.hasCounter
           /\ l.counterOffer \in {NoPrices, [A |-> 39, B |-> 98]} }

\* queueTask: taskQueue.add(task, { priority: task.priority || 5 }), then the
\* AgentTask row
NewJob(task, origin) ==
    [agentType |-> task.agentType, taskType |-> task.taskType,
     payload |-> task.payload, negId |-> task.negId,
     organizationId |-> task.organizationId, supplierId |-> task.supplierId,
     priority |-> IF task.priority = 0 THEN DefaultPriority ELSE task.priority,
     state |-> "waiting", attemptsMade |-> 0, delay |-> 0, origin |-> origin]

NewAgentTask(task) ==
    [agentType |-> task.agentType, taskType |-> task.taskType,
     priority |-> IF task.priority = 0 THEN DefaultPriority ELSE task.priority,
     status |-> "pending"]

queueTask(task, origin) ==
    /\ jobs' = Append(jobs, NewJob(task, origin))
    /\ agentTasks' = Append(agentTasks, NewAgentTask(task))

JobIds == 1..Len(jobs)
InState(st) == {j \in JobIds : jobs[j].state = st}
AdHocCount == Cardinality({j \in JobIds : jobs[j].origin = "adhoc"})
FailedAttempts == SumSeq([j \in JobIds |-> jobs[j].attemptsMade])

\* a task enqueued through queueTask by a caller other than the cycle
QueueTask(task) ==
    /\ AdHocCount < MaxAdHocJobs
    /\ queueTask(task, "adhoc")
    /\ UNCHANGED <<negotiations, outbox, last, activityLog, cyclePc>>

\* runProcurementCycle, one awaited queueTask at a time
RunProcurementCycle ==
    /\ cyclePc < Len(CyclePlan)
    /\ queueTask(CyclePlan[cyclePc + 1], "cycle")
    /\ cyclePc' = cyclePc + 1
    /\ UNCHANGED <<negotiations, outbox, last, activityLog>>

\* a queue that hands out the highest priority number first
HighestNumberFirst ==
    {j \in InState("waiting") :
        \A k \in InState("waiting") : jobs[j].priority >= jobs[k].priority}

\* Bull hands out the waiting job with the lowest priority number
NextToStart ==
    {j \in InState("waiting") :
        \A k \in InState("waiting") : jobs[j].priority <= jobs[k].priority}

JobStart(j) ==
    /\ j \in NextToStart
    /\ Cardinality(InState("active")) < NumWorkers
    /\ jobs' = [jobs EXCEPT ![j].state = "active"]
    /\ UNCHANGED <<negotiations, outbox, last, agentTasks, activityLog, cyclePc>>

\* a handler of the scout or strategist worker, or one of the diplomat's
\* that keeps no negotiation state: its try body returns its Result, or throws
\* into its catch block
GenericHandler(type, body) ==
    /\ last' = Call(type, 0, NoLlm,
                    IF body = "ok" THEN Ok("done") ELSE Caught("error"),
                    "none")
    /\ UNCHANGED <<negotiations, outbox>>

\* the default case of a worker's switch
UnknownTaskType ==
    /\ last' = Call("execute_task", 0, NoLlm, Fail("unknown_task_type"), "none")
    /\ UNCHANGED <<negotiations, outbox>>

\* executeTask of the worker named by job.agentType
executeTask(job, body, lookup, llm, draftOk, sendOk) ==
    IF job.taskType \notin KnownTypes(job.agentType)
    THEN UnknownTaskType
    ELSE IF job.taskType = "initiate_negotiation"
    THEN InitiateNegotiation(job.payload, lookup, draftOk, sendOk)
    ELSE IF job.taskType = "process_response"
    THEN ProcessNegotiationResponse(job.negId, llm, draftOk, sendOk)
    ELSE GenericHandler(job.taskType, body)

\* the routing switch of processTask
RouteTask(job, body, lookup, llm, draftOk, sendOk) ==
    IF job.agentType \in Agents
    THEN executeTask(job, body, lookup, llm, draftOk, sendOk)
    ELSE /\ last' = Call("process_task", 0, NoLlm, Fail("unknown_agent_type"), "none")
         /\ UNCHANGED <<negotiations, outbox>>

\* a log row that does not carry the Result
LogEntryWithoutResult(job, res) ==
    [agentType |-> job.agentType, action |-> job.taskType,
     success |-> TRUE, error |-> "none"]

\* the ActivityLog row processTask creates from the Result
LogEntry(job, res) ==
    [agentType |-> job.agentType, action |-> job.taskType,
     success |-> res.success,
     error |-> IF res.success THEN "none" ELSE res.outcome]

\* processTask wrote its log row and returned its Result: the job completes,
\* whatever result.success says
JobCompleted(job) ==
    [job EXCEPT !.state = "completed"]

\* processTask threw: Bull counts the attempt and retries after the backoff
\* delay, or moves the job to the failed set after the last attempt
JobAttemptFailed(job) ==
    LET made == job.attemptsMade + 1 IN
    IF made < QueueAttempts
    THEN [job EXCEPT !.state = "delayed", !.attemptsMade = made,
                     !.delay = BackoffDelayMs * 2 ^ (made - 1)]
    ELSE [job EXCEPT !.state = "failed", !.attemptsMade = made]

\* what the environment answers while a job runs: how a generic handler's
\* body ends, whether the supplier lookup finds its rows, the classifier's
\* output, whether the drafting call and the email send succeed
Env(body, lookup, llm, draftOk, sendOk) ==
    [body |-> body, lookup |-> lookup, llm |-> llm, draftOk |-> draftOk, sendOk |-> sendOk]

\* the answers the code path of this job can read
Envs(job) ==
    IF job.agentType \notin Agents \/ job.taskType \notin KnownTypes(job.agentType)
    THEN {Env("ok", "ok", NoLlm, TRUE, TRUE)}
    ELSE IF job.taskType = "initiate_negotiation"
    THEN {Env("ok", lookup, NoLlm, draftOk, sendOk) :
            lookup \in {"ok", "not_found"}, draftOk \in BOOLEAN, sendOk \in BOOLEAN}
    ELSE IF job.taskType = "process_response"
    THEN {Env("ok", "ok", llm, draftOk, sendOk) :
            llm \in QueueReplies, draftOk \in BOOLEAN, sendOk \in BOOLEAN}
    ELSE {Env(body, "ok", NoLlm, TRUE, TRUE) : body \in {"ok", "throws"}}

\* the queue processor: processTask(job.data). logOk: the activityLog insert
\* succeeds.
JobFinish(j, env, logOk) ==
    /\ j \in InState("active")
    /\ logOk \/ FailedAttempts < MaxFailedAttempts
    /\ RouteTask(jobs[j], env.body, env.lookup, env.llm, env.draftOk, env.sendOk)
    /\ IF ~last'.threw /\ logOk
       THEN /\ activityLog' = Append(activityLog, LogEntry(jobs[j], last'))
            /\ jobs' = [jobs EXCEPT ![j] = JobCompleted(jobs[j])]
       ELSE /\ activityLog' = activityLog
            /\ jobs' = [jobs EXCEPT ![j] = JobAttemptFailed(jobs[j])]
    /\ UNCHANGED <<agentTasks, cyclePc>>

\* the backoff delay of a retried job is over
BackoffElapses(j) ==
    /\ j \in InState("delayed")
    /\ jobs' = [jobs EXCEPT ![j].state = "waiting"]
    /\ UNCHANGED <<negotiations, outbox, last, agentTasks, activityLog, cyclePc>>

----------------------------------------------------------------------------
(* Catalogue and inventory rows *)

Products == {"A", "B"}
Suppliers == {"S1", "S2"}
Organizations == {"org1", "org2"}

\* the SupplierProduct row of a supplier and a product, or that there is none
Unlisted == [listed |-> FALSE, unitPrice |-> 0, inStock |-> FALSE]
Offer(price, inStock) == [listed |-> TRUE, unitPrice |-> price, inStock |-> inStock]
OfferChoices == {Unlisted, Offer(10, TRUE), Offer(12, TRUE), Offer(10, FALSE)}
NoOffers == [key \in Suppliers \X Products |-> Unlisted]

\* InventoryItem rows of a product: owned by either organization, with stock
\* below, at or above the reorder point
ItemChoices(productId, reorderQuantity) ==
    { [productId |-> productId, organizationId |-> org, currentStock |-> stock,
       reorderPoint |-> 8, reorderQuantity |-> reorderQuantity] :
        org \in Organizations, stock \in {7, 8, 9} }

InventoryChoices ==
    { <<a, b>> : a \in ItemChoices("A", 15), b \in ItemChoices("B", 20) }

RECURSIVE Ascending(_)
\* the numbers of S in ascending order
Ascending(S) ==
    IF S = {} THEN <<>>
    ELSE LET m == CHOOSE x \in S : \A y \in S : x <= y
         IN <<m>> \o Ascending(S \ {m})

----------------------------------------------------------------------------
(* Orchestrator: autoReorder *)

\* a selection with lt in place of lte
LowStockItemsBelow(org) ==
    { i \in DOMAIN inventoryItems :
        /\ inventoryItems[i].organizationId = org
        /\ inventoryItems[i].currentStock < inventoryItems[i].reorderPoint }

\* inventoryItem.findMany where organizationId, currentStock lte reorderPoint
LowStockItems(org) ==
    { i \in DOMAIN inventoryItems :
        /\ inventoryItems[i].organizationId = org
        /\ inventoryItems[i].currentStock <= inventoryItems[i].reorderPoint }

\* include supplierProducts where inStock
InStockOffers(productId) ==
    { s \in Suppliers : /\ supplierProducts[<<s, productId>>].listed
                        /\ supplierProducts[<<s, productId>>].inStock }

\* orderBy unitPrice asc: the suppliers that can stand at index 0 (the order
\* among equal prices is the database's)
FirstOffers(productId) ==
    { s \in InStockOffers(productId) :
        \A t \in InStockOffers(productId) :
            supplierProducts[<<s, productId>>].unitPrice
                <= supplierProducts[<<t, productId>>].unitPrice }

\* bestSupplier of every low-stock item that has one
BestSupplierChoices(org) ==
    LET withOffer == { i \in LowStockItems(org) :
                          InStockOffers(inventoryItems[i].productId) # {} }
    IN { best \in [withOffer -> Suppliers] :
            \A i \in withOffer : best[i] \in FirstOffers(inventoryItems[i].productId) }

\* supplierOrders: a Map, so its entries are in the order their suppliers
\* were first met, each with its products in item order
SupplierOrders(best) ==
    LET firsts == Ascending({ i \in DOMAIN best :
                                \A k \in DOMAIN best : best[k] = best[i] => i <= k })
        ItemsOf(s) == Ascending({ i \in DOMAIN best : best[i] = s })
    IN [n \in 1..Len(firsts) |->
          [supplierId |-> best[firsts[n]],
           products |-> [m \in 1..Len(ItemsOf(best[firsts[n]])) |->
                [productId |-> inventoryItems[ItemsOf(best[firsts[n]])[m]].productId,
                 quantity |->
                    inventoryItems[ItemsOf(best[firsts[n]])[m]].reorderQuantity]]]]

ReorderTask(org, order) ==
    [Task("diplomat", "initiate_negotiation", order.products, 0, 2)
        EXCEPT !.organizationId = org, !.supplierId = order.supplierId]

\* autoReorder(organizationId): one queueTask per entry of supplierOrders
AutoReorder(org) ==
    /\ \E best \in BestSupplierChoices(org) :
          LET orders == SupplierOrders(best) IN
          /\ jobs' = jobs \o [n \in 1..Len(orders) |->
                                 NewJob(ReorderTask(org, orders[n]), "reorder")]
          /\ agentTasks' = agentTasks \o [n \in 1..Len(orders) |->
                                 NewAgentTask(ReorderTask(org, orders[n]))]
    /\ last' = Call("auto_reorder", 0, NoLlm, Ok("queued"), "none")
    /\ UNCHANGED <<negotiations, outbox, activityLog, cyclePc, storeVars>>

----------------------------------------------------------------------------
(* Price-scan worker: scanSupplier *)

\* at most this many items in one scrape result
MaxScraped == 2
\* at most this many scanSupplier calls
MaxScans == 2

\* what an adapter can return for a product; the same sku can come up twice
ScrapedItems ==
    { [sku |-> "A", price |-> 10, inStock |-> TRUE],
      [sku |-> "A", price |-> 12, inStock |-> FALSE],
      [sku |-> "B", price |-> 12, inStock |-> TRUE] }

ScrapeResults == UNION { [1..n -> ScrapedItems] : n \in 0..MaxScraped }

\* supplier ids a scan can be asked for; S9 has no Supplier row
ScanTargets == Suppliers \cup {"S9"}

\* a history row holding the price stored before the scan
HistoryRowOfStored(supplierId, scraped, existing) ==
    [supplierId |-> supplierId, productSku |-> scraped.sku, price |-> existing.unitPrice]

\* priceHistory.create({ supplierId, productSku: scraped.sku, price: scraped.price })
HistoryRow(supplierId, scraped, existing) ==
    [supplierId |-> supplierId, productSku |-> scraped.sku, price |-> scraped.price]

\* supplierProduct.update({ unitPrice: scraped.price, inStock: scraped.inStock })
UpdatedProduct(existing, scraped) ==
    [existing EXCEPT !.unitPrice = scraped.price, !.inStock = scraped.inStock]

\* scanSupplier up to the adapter's answer: the supplier with its
\* supplierProducts is loaded, the ScrapingJob row is created as running and
\* the adapter is called. adapter: "ok" or "throws".
ScanBegin(supplierId, adapter, scraped) ==
    /\ scan.pc = "idle"
    /\ scan.runs < MaxScans
    /\ IF supplierId \notin Suppliers
       THEN /\ last' = Call("scan_supplier", 0, NoLlm, Fail("supplier_not_found"), "none")
            /\ scan' = [scan EXCEPT !.runs = @ + 1]
            /\ UNCHANGED scrapingJobs
       ELSE /\ scrapingJobs' = Append(scrapingJobs,
                                      [supplierId |-> supplierId, status |-> "running"])
            /\ IF adapter = "throws"
               THEN /\ last' = Call("scan_supplier", 0, NoLlm, Caught("error"), "none")
                    /\ scan' = [scan EXCEPT !.runs = @ + 1]
               ELSE /\ last' = last
                    /\ scan' = [pc |-> "items", supplierId |-> supplierId,
                                snapshot |-> [p \in Products |->
                                                supplierProducts[<<supplierId, p>>]],
                                scraped |-> scraped, next |-> 1,
                                job |-> Len(scrapingJobs) + 1,
                                historyBefore |-> Len(priceHistory),
                                runs |-> scan.runs + 1]
    /\ UNCHANGED <<negotiations, outbox, queueVars, inventoryItems, supplierProducts,
                   priceHistory>>

\* one turn of the loop over scrapedProducts: the item is matched by sku
\* against the rows loaded at the start, a PriceHistory row is inserted if its
\* price differs from the loaded one, and the SupplierProduct row is updated
ScanItem ==
    /\ scan.pc = "items"
    /\ scan.next <= Len(scan.scraped)
    /\ LET scraped == scan.scraped[scan.next]
           existing == scan.snapshot[scraped.sku]
           key == <<scan.supplierId, scraped.sku>>
       IN IF existing.listed
          THEN /\ priceHistory' =
                     IF existing.unitPrice # scraped.price
                     THEN Append(priceHistory, HistoryRow(scan.supplierId, scraped, existing))
                     ELSE priceHistory
               /\ supplierProducts' =
                     [supplierProducts EXCEPT ![key] = UpdatedProduct(existing, scraped)]
          ELSE UNCHANGED <<priceHistory, supplierProducts>>
    /\ scan' = [scan EXCEPT !.next = @ + 1]
    /\ UNCHANGED <<negotiations, outbox, last, queueVars, inventoryItems, scrapingJobs>>

\* a turn of the loop in which a store call rejects: priceHistory.create
\* (at = "history") or supplierProduct.update (at = "update", after the
\* PriceHistory row of a changed price has been inserted). The rejection
\* leaves the loop for the catch block, which returns {success: false}
ScanItemFails(at) ==
    /\ scan.pc = "items"
    /\ scan.next <= Len(scan.scraped)
    /\ LET scraped == scan.scraped[scan.next]
           existing == scan.snapshot[scraped.sku]
       IN /\ existing.listed
          /\ at = "history" => existing.unitPrice # scraped.price
          /\ priceHistory' =
                IF at = "update" /\ existing.unitPrice # scraped.price
                THEN Append(priceHistory, HistoryRow(scan.supplierId, scraped, existing))
                ELSE priceHistory
    /\ last' = Call("scan_supplier", 0, NoLlm, Caught("error"), "none")
    /\ scan' = [scan EXCEPT !.pc = "idle"]
    /\ UNCHANGED <<negotiations, outbox, queueVars, inventoryItems, supplierProducts,
                   scrapingJobs>>

\* after the loop: the ScrapingJob row is completed and the Result returned
ScanFinish ==
    /\ scan.pc = "items"
    /\ scan.next > Len(scan.scraped)
    /\ scrapingJobs' = [scrapingJobs EXCEPT ![scan.job].status = "completed"]
    /\ last' = Call("scan_supplier", 0, NoLlm, Ok("scanned"), "none")
    /\ scan' = [scan EXCEPT !.pc = "idle"]
    /\ UNCHANGED <<negotiations, outbox, queueVars, inventoryItems, supplierProducts,
                   priceHistory>>

----------------------------------------------------------------------------
(* Price-scan worker: scanAllSuppliers *)

\* the delay between two suppliers, in ms
InterSupplierDelayMs == 2000

\* supplier.findMany where isActive: the active suppliers in the order the
\* database returns them
SupplierOrderings ==
    { order \in UNION { [1..n -> Suppliers] : n \in 0..Cardinality(Suppliers) } :
        /\ { order[i] : i \in 1..Len(order) } = activeSuppliers
        /\ Len(order) = Cardinality(activeSuppliers) }

\* a loop that ends at the first supplier whose scan failed
RemainingAfterAbort(todo, result) ==
    IF result.success THEN Tail(todo) ELSE <<>>

\* for (const supplier of suppliers): the loop goes on whatever the result
RemainingAfter(todo, result) == Tail(todo)

ScanAllBegin(order) ==
    /\ scanAll.pc = "idle"
    /\ scan.pc = "idle"
    /\ scanAll' = [pc |-> "ready", todo |-> order, started |-> <<>>,
                   results |-> <<>>, waitedMs |-> 0]
    /\ UNCHANGED <<negotiations, outbox, last, queueVars, inventoryItems,
                   supplierProducts, priceHistory, scrapingJobs, scan, activeSuppliers>>

\* the loop calls scanSupplier for the next supplier
ScanAllScan(adapter, scraped) ==
    /\ scanAll.pc = "ready"
    /\ scanAll.todo # <<>>
    /\ ScanBegin(Head(scanAll.todo), adapter, scraped)
    /\ scanAll' = [scanAll EXCEPT !.pc = "scanning",
                                  !.started = Append(@, Head(scanAll.todo))]
    /\ UNCHANGED activeSuppliers

\* scanSupplier has returned: its Result is pushed and the delay begins
ScanAllRecord ==
    /\ scanAll.pc = "scanning"
    /\ scan.pc = "idle"
    /\ scanAll' = [scanAll EXCEPT
                      !.pc = "delay",
                      !.results = Append(@, [supplierId |-> Head(scanAll.todo),
                                             success |-> last.success]),
                      !.todo = RemainingAfter(scanAll.todo, last)]
    /\ UNCHANGED <<negotiations, outbox, last, queueVars, inventoryItems,
                   supplierProducts, priceHistory, scrapingJobs, scan, activeSuppliers>>

\* await this.delay(2000) is over
ScanAllDelay ==
    /\ scanAll.pc = "delay"
    /\ scanAll' = [scanAll EXCEPT !.pc = "ready", !.waitedMs = @ + InterSupplierDelayMs]
    /\ UNCHANGED <<negotiations, outbox, last, queueVars, inventoryItems,
                   supplierProducts, priceHistory, scrapingJobs, scan, activeSuppliers>>

\* the loop is over: scanAllSuppliers returns success with the results
ScanAllFinish ==
    /\ scanAll.pc = "ready"
    /\ scanAll.todo = <<>>
    /\ scanAll' = [scanAll EXCEPT !.pc = "done"]
    /\ last' = Call("scan_all_suppliers", 0, NoLlm, Ok("scanned"), "none")
    /\ UNCHANGED <<negotiations, outbox, queueVars, inventoryItems,
                   supplierProducts, priceHistory, scrapingJobs, scan, activeSuppliers>>

----------------------------------------------------------------------------
(* Status requests: GET /api/agents/status and GET /api/dashboard
   (src/api/server.ts 900-929 and 221-303), which read the queue's counts
   through getQueueStatus (src/services/orchestrator.ts 260-274).  Each races
   the getQueueStatus promise against a timer.  The promise may resolve, may
   reject (the queue's Redis connection failing) or may stay pending.  The
   three healthCheck promises of /api/agents/status settle at once: the
   scout's with whether its browser is connected, the other two with true. *)

MaxQueueCount == 1
MaxStatusRequests == 2

StatusRoutes == {"agents_status", "dashboard"}

\* timeoutMs (server.ts 903) and the dashboard's setTimeout delay (281)
RequestTimeoutMs(route) == IF route = "agents_status" THEN 3000 ELSE 2000

\* what getQueueStatus resolves with
QueueCounts ==
    [waiting : 0..MaxQueueCount, active : 0..MaxQueueCount,
     completed : 0..MaxQueueCount, failed : 0..MaxQueueCount]

FallbackCounts == [waiting |-> 0, active |-> 0, completed |-> 0, failed |-> 0]

NoResponse == [status |-> 0]
InternalServerError == [status |-> 500, error |-> "Internal server error"]

\* res.json of the two routes, as far as the queue's counts go
StatusResponse(route, scoutHealthy, counts) ==
    IF route = "agents_status"
    THEN [status |-> 200, scout |-> scoutHealthy, queue |-> counts]
    ELSE [status |-> 200, queueStatus |-> counts]

\* a timer whose firing leaves the race pending
RaceIgnoresTimer(route, scoutHealthy) == NoResponse

\* the timer wins the race: withTimeout resolves with its fallback, and the
\* dashboard's rejection is caught, leaving queueStatus at its default
RaceWonByTimer(route, scoutHealthy) ==
    StatusResponse(route, scoutHealthy, FallbackCounts)

\* getQueueStatus rejects first: Promise.all of /api/agents/status rejects
\* and its catch answers 500; the dashboard catches and keeps the default
RaceWonByRejection(route, scoutHealthy) ==
    IF route = "agents_status"
    THEN InternalServerError
    ELSE StatusResponse(route, scoutHealthy, FallbackCounts)

NoStatusRequest ==
    [pc |-> "idle", route |-> "none", scoutHealthy |-> FALSE, queue |-> "none",
     timer |-> "none", elapsedMs |-> 0, response |-> NoResponse, served |-> 0]

\* the route handler starts; /api/agents/status calls getQueueStatus and
\* arms its timer at once, the dashboard first awaits its store queries
StatusRequestBegin(route, scoutHealthy) ==
    /\ statusRequest.pc \in {"idle", "done"}
    /\ statusRequest.served < MaxStatusRequests
    /\ statusRequest' =
          [pc |-> IF route = "dashboard" THEN "store" ELSE "queue",
           route |-> route, scoutHealthy |-> scoutHealthy,
           queue |-> IF route = "dashboard" THEN "none" ELSE "pending",
           timer |-> IF route = "dashboard" THEN "none" ELSE "armed",
           elapsedMs |-> 0, response |-> NoResponse,
           served |-> statusRequest.served]

\* the dashboard's Promise.all of store queries settles
StoreQueriesSettle(ok) ==
    /\ statusRequest.pc = "store"
    /\ statusRequest' =
          IF ok
          THEN [statusRequest EXCEPT !.pc = "queue", !.queue = "pending",
                                     !.timer = "armed"]
          ELSE [statusRequest EXCEPT !.pc = "done", !.response = InternalServerError,
                                     !.served = @ + 1]

\* getQueueStatus resolves; if the race is still open the counts are the answer
QueueStatusResolves(counts) ==
    /\ statusRequest.queue = "pending"
    /\ statusRequest' =
          IF statusRequest.pc = "queue"
          THEN [statusRequest EXCEPT
                   !.pc = "done", !.queue = "resolved", !.served = @ + 1,
                   !.response = StatusResponse(statusRequest.route,
                                               statusRequest.scoutHealthy, counts)]
          ELSE [statusRequest EXCEPT !.queue = "resolved"]

QueueStatusRejects ==
    /\ statusRequest.queue = "pending"
    /\ statusRequest' =
          IF statusRequest.pc = "queue"
          THEN [statusRequest EXCEPT
                   !.pc = "done", !.queue = "rejected", !.served = @ + 1,
                   !.response = RaceWonByRejection(statusRequest.route,
                                                   statusRequest.scoutHealthy)]
          ELSE [statusRequest EXCEPT !.queue = "rejected"]

\* the timer fires, RequestTimeoutMs after it was armed
TimerFires ==
    /\ statusRequest.timer = "armed"
    /\ LET answer == RaceWonByTimer(statusRequest.route, statusRequest.scoutHealthy)
       IN statusRequest' =
            IF statusRequest.pc = "queue" /\ answer # NoResponse
            THEN [statusRequest EXCEPT
                     !.pc = "done", !.timer = "fired", !.served = @ + 1,
                     !.elapsedMs = RequestTimeoutMs(statusRequest.route),
                     !.response = answer]
            ELSE [statusRequest EXCEPT
                     !.timer = "fired",
                     !.elapsedMs = RequestTimeoutMs(statusRequest.route)]

----------------------------------------------------------------------------
(* StrategistAgent (src/unnamed/part_010).  Stock levels are integers; a
   number of days is a fraction num/den of integers, compared by cross
   multiplication, so that no rounding enters the comparisons the code makes
   on floating-point quotients of these integers. *)

\* config.agents.strategist.stockoutThresholdDays
StockoutThresholdDays == 14
CriticalDays == 3

Days(num, den) == [num |-> num, den |-> den]
\* a <= k and a <= b for fractions with positive denominators
DaysAtMost(a, k) == a.num <= k * a.den
DaysLeq(a, b) == a.num * b.den <= b.num * a.den
DaysEqual(a, b) == a.num * b.den = b.num * a.den

\* InventoryItem rows as the strategist reads them
StockedItemChoices(productId, reorderQuantity) ==
    { [productId |-> productId, organizationId |-> "org1", currentStock |-> 20,
       reservedStock |-> reserved, avgDailyUsage |-> usage,
       reorderPoint |-> point, reorderQuantity |-> reorderQuantity] :
        reserved \in {0, 10, 18}, usage \in {0, 1}, point \in {8, 20} }

StockedInventoryChoices ==
    { <<a, b>> : a \in StockedItemChoices("A", 15), b \in StockedItemChoices("B", 20) }

\* a classification in which more than three days of stock is the critical case
UrgencyInverted(daysOfStock, currentStock, reorderPoint) ==
    IF ~DaysAtMost(daysOfStock, CriticalDays) THEN "critical"
    ELSE IF DaysAtMost(daysOfStock, StockoutThresholdDays) THEN "warning"
    ELSE IF currentStock <= reorderPoint THEN "warning"
    ELSE "ok"

\* the if / else-if chain of analyzeInventory
Urgency(daysOfStock, currentStock, reorderPoint) ==
    IF DaysAtMost(daysOfStock, CriticalDays) THEN "critical"
    ELSE IF DaysAtMost(daysOfStock, StockoutThresholdDays) THEN "warning"
    ELSE IF currentStock <= reorderPoint THEN "warning"
    ELSE "ok"

\* the InventoryAnalysis of one item
AnalyzeItem(item) ==
    LET avgDailyUsage == IF item.avgDailyUsage = 0 THEN 1 ELSE item.avgDailyUsage
        availableStock == item.currentStock - item.reservedStock
        daysOfStock == Days(availableStock, avgDailyUsage)
    IN [productId |-> item.productId,
        currentStock |-> item.currentStock,
        reorderPoint |-> item.reorderPoint,
        avgDailyUsage |-> avgDailyUsage,
        daysOfStock |-> daysOfStock,
        urgency |-> Urgency(daysOfStock, item.currentStock, item.reorderPoint)]

UrgencyOrder(urgency) ==
    IF urgency = "critical" THEN 0 ELSE IF urgency = "warning" THEN 1 ELSE 2

\* the comparator of analyses.sort: a goes before b
AnalysisBefore(a, b) ==
    \/ UrgencyOrder(a.urgency) < UrgencyOrder(b.urgency)
    \/ /\ a.urgency = b.urgency
       /\ ~DaysLeq(b.daysOfStock, a.daysOfStock)

RECURSIVE InsertAnalysis(_, _)
\* a inserted into the sorted sequence, after the elements it does not precede
InsertAnalysis(a, sorted) ==
    IF sorted = <<>> THEN <<a>>
    ELSE IF AnalysisBefore(a, Head(sorted)) THEN <<a>> \o sorted
    ELSE <<Head(sorted)>> \o InsertAnalysis(a, Tail(sorted))

RECURSIVE SortAnalyses(_)
\* Array.prototype.sort, which is stable
SortAnalyses(analyses) ==
    IF analyses = <<>> THEN <<>>
    ELSE InsertAnalysis(analyses[Len(analyses)],
                        SortAnalyses(SubSeq(analyses, 1, Len(analyses) - 1)))

RECURSIVE ItemsOf(_, _)
\* inventoryItem.findMany({where: {organizationId}})
ItemsOf(items, organizationId) ==
    IF items = <<>> THEN <<>>
    ELSE IF Head(items).organizationId = organizationId
         THEN <<Head(items)>> \o ItemsOf(Tail(items), organizationId)
         ELSE ItemsOf(Tail(items), organizationId)

\* the data analyzeInventory returns
InventoryAnalyses(organizationId) ==
    LET items == ItemsOf(inventoryItems, organizationId)
    IN SortAnalyses([i \in 1..Len(items) |-> AnalyzeItem(items[i])])

NoStrategistCall ==
    [op |-> "none", success |-> FALSE, analyses |-> <<>>, suggestions |-> <<>>,
     totalValue |-> 0, item |-> [currentStock |-> 0, reservedStock |-> 0],
     daily |-> 0, daysUntilStockout |-> Days(0, 1)]

\* analyzeInventory; dbOk is whether the findMany resolves
AnalyzeInventory(organizationId, dbOk) ==
    /\ strategist.op = "none"
    /\ strategist' =
          [NoStrategistCall EXCEPT
              !.op = "analyze_inventory",
              !.success = dbOk,
              !.analyses = IF dbOk THEN InventoryAnalyses(organizationId) ELSE <<>>]
    /\ UNCHANGED <<dataVars, statusRequest, stockCheck, extraVars>>

\* simpleStockoutPrediction's inputs: the item's stock and consumption.daily
PredictionItems ==
    { [currentStock |-> stock, reservedStock |-> reserved] :
        stock \in {20, 100}, reserved \in {0, 10} }
DailyRates == {0, 5, 10}

\* a number of days that is not finite
Infinity == Days(1, 0)

\* daysUntilStockout of simpleStockoutPrediction
SimpleStockoutDays(item, daily) ==
    IF daily > 0
    THEN Days(item.currentStock - item.reservedStock, daily)
    ELSE Days(365, 1)

SimpleStockoutPrediction(item, daily) ==
    /\ strategist.op = "none"
    /\ strategist' =
          [NoStrategistCall EXCEPT
              !.op = "simple_stockout_prediction",
              !.success = TRUE,
              !.item = item,
              !.daily = daily,
              !.daysUntilStockout = SimpleStockoutDays(item, daily)]
    /\ UNCHANGED <<dataVars, statusRequest, stockCheck, extraVars>>

\* generateReorderSuggestions: the analyses it acts on
UrgentAnalyses(analyses) ==
    { analyses[i] : i \in { k \in 1..Len(analyses) :
                              analyses[k].urgency \in {"critical", "warning"} } }

UrgentProductIds(analyses) == { a.productId : a \in UrgentAnalyses(analyses) }

\* the item product.inventoryItem resolves to
InventoryItemOf(productId) ==
    { inventoryItems[i] : i \in { k \in 1..Len(inventoryItems) :
                                    inventoryItems[k].productId = productId } }

\* supplierProduct.findMany({where: {productId: {in: urgent}, inStock: true}}):
\* the <<supplier, product>> keys of the rows found
UrgentOffers(analyses) ==
    { key \in Suppliers \X Products :
        /\ key[2] \in UrgentProductIds(analyses)
        /\ supplierProducts[key].listed
        /\ supplierProducts[key].inStock
        /\ InventoryItemOf(key[2]) # {} }

\* the products the loop puts into a supplier's group: the find over
\* suggestion.items looks only into that supplier's own items, and a supplier
\* has one row per product, so every row found adds its product
OfferedBy(supplierId, analyses) ==
    { p \in Products : <<supplierId, p>> \in UrgentOffers(analyses) }

SuggestionItem(supplierId, productId, analyses) ==
    LET item == CHOOSE i \in InventoryItemOf(productId) : TRUE
        urgentItem == CHOOSE a \in UrgentAnalyses(analyses) : a.productId = productId
        unitPrice == supplierProducts[<<supplierId, productId>>].unitPrice
    IN [productId |-> productId,
        quantity |-> item.reorderQuantity,
        unitPrice |-> unitPrice,
        totalPrice |-> item.reorderQuantity * unitPrice,
        urgency |-> urgentItem.urgency]

RECURSIVE SumTotalPrice(_)
\* the sum of totalPrice over a group's items
SumTotalPrice(items) ==
    IF DOMAIN items = {} THEN 0
    ELSE LET p == CHOOSE q \in DOMAIN items : TRUE
         IN items[p].totalPrice
              + SumTotalPrice([q \in DOMAIN items \ {p} |-> items[q]])

RECURSIVE SumTotalValue(_)
\* suggestions.reduce((sum, s) => sum + s.totalValue, 0)
SumTotalValue(suggestions) ==
    IF DOMAIN suggestions = {} THEN 0
    ELSE LET s == CHOOSE q \in DOMAIN suggestions : TRUE
         IN suggestions[s].totalValue
              + SumTotalValue([q \in DOMAIN suggestions \ {s} |-> suggestions[q]])

\* the supplierSuggestions Map, by supplier id; the order of its entries and
\* of their items is not represented
SupplierSuggestions(analyses) ==
    [supplierId \in { key[1] : key \in UrgentOffers(analyses) } |->
        LET items == [p \in OfferedBy(supplierId, analyses) |->
                         SuggestionItem(supplierId, p, analyses)]
        IN [items |-> items, totalValue |-> SumTotalPrice(items)]]

\* generateReorderSuggestions; dbOk is whether the queries of analyzeInventory
\* and predictStockouts resolve
GenerateReorderSuggestions(organizationId, dbOk) ==
    /\ strategist.op = "none"
    /\ LET analyses == InventoryAnalyses(organizationId)
           suggestions == SupplierSuggestions(analyses)
       IN strategist' =
            IF dbOk
            THEN [NoStrategistCall EXCEPT
                     !.op = "generate_reorder_suggestions",
                     !.success = TRUE,
                     !.analyses = analyses,
                     !.suggestions = suggestions,
                     !.totalValue = SumTotalValue(suggestions)]
            ELSE [NoStrategistCall EXCEPT !.op = "generate_reorder_suggestions"]
    /\ UNCHANGED <<dataVars, statusRequest, stockCheck, extraVars>>

----------------------------------------------------------------------------
(* ScoutAgent.checkStock and performStockCheck (src/agents/scout/index.ts
   253-294 and 556-575).  A stock level is a set: empty for a level that is
   absent (undefined or null), {n} for the level n. *)

MaxStockChecks == 1

NoLevel == {}
StockedOffer(price, inStock, stockLevel) ==
    [listed |-> TRUE, unitPrice |-> price, inStock |-> inStock, stockLevel |-> stockLevel]
UnlistedStock ==
    [listed |-> FALSE, unitPrice |-> 0, inStock |-> FALSE, stockLevel |-> NoLevel]

StockedOfferChoices ==
    {UnlistedStock, StockedOffer(10, TRUE, {5}), StockedOffer(10, FALSE, {0}),
     StockedOffer(10, TRUE, NoLevel)}

\* what the supplier's stock API does: the supplier has no apiEndpoint, the
\* GET fails, or it answers with data.in_stock ("absent", "true", "false")
\* and data.quantity
NoEndpoint == [kind |-> "no_endpoint", in_stock |-> "absent", quantity |-> NoLevel]
ApiFails == [kind |-> "fails", in_stock |-> "absent", quantity |-> NoLevel]
ApiAnswers ==
    { [kind |-> "answers", in_stock |-> flag, quantity |-> quantity] :
        flag \in {"absent", "true", "false"}, quantity \in {NoLevel, {0}, {5}} }
StockApis == {NoEndpoint, ApiFails} \cup ApiAnswers

\* performStockCheck: response.data.in_stock ?? response.data.quantity > 0
\* from the API; { inStock: true } when there is no endpoint or the GET fails
performStockCheck(api, stored) ==
    IF api.kind = "answers"
    THEN [inStock |-> IF api.in_stock = "absent"
                      THEN \E q \in api.quantity : q > 0
                      ELSE api.in_stock = "true",
          stockLevel |-> api.quantity]
    ELSE [inStock |-> TRUE, stockLevel |-> NoLevel]

\* supplierProduct.update: a stockLevel of undefined leaves the column alone
StockUpdated(stored, stockData) ==
    [stored EXCEPT !.inStock = stockData.inStock,
                   !.stockLevel = IF stockData.stockLevel = NoLevel
                                  THEN @ ELSE stockData.stockLevel]

NoStockCheck ==
    [op |-> "none", supplierId |-> "none", productSku |-> "none", api |-> NoEndpoint,
     success |-> FALSE, before |-> UnlistedStock,
     data |-> [inStock |-> FALSE, stockLevel |-> NoLevel], checks |-> 0]

\* checkStock; dbOk is whether the update resolves
checkStock(supplierId, productSku, api, dbOk) ==
    /\ stockCheck.checks < MaxStockChecks
    /\ LET stored == supplierProducts[<<supplierId, productSku>>]
           stockData == performStockCheck(api, stored)
           call == [NoStockCheck EXCEPT !.op = "check_stock",
                                        !.supplierId = supplierId,
                                        !.productSku = productSku,
                                        !.api = api,
                                        !.before = stored,
                                        !.checks = stockCheck.checks + 1]
       IN IF ~stored.listed
          THEN \* 'Supplier product not found'
               /\ stockCheck' = call
               /\ UNCHANGED supplierProducts
          ELSE IF ~dbOk
          THEN /\ stockCheck' = call
               /\ UNCHANGED supplierProducts
          ELSE /\ stockCheck' = [call EXCEPT !.success = TRUE, !.data = stockData]
               /\ supplierProducts' =
                     [supplierProducts EXCEPT
                         ![<<supplierId, productSku>>] = StockUpdated(stored, stockData)]
    /\ UNCHANGED <<negVars, queueVars, inventoryItems, priceHistory, scrapingJobs,
                   scan, batchVars, statusRequest, strategist, extraVars>>

----------------------------------------------------------------------------
(* process_response tasks of one negotiation handled by several queue
   workers at once.  processNegotiationResponse (strategist.test.ts 432-625)
   is a chain of awaits: it loads the negotiation with its messages (437-444)
   and logs the inbound message (451-458); everything after the classifier's
   answer works on the row as it was loaded and writes with separate store
   calls.  The store serializes the calls, not the handlers: the queue's
   worker (orchestrator.ts 55) and POST /api/negotiations/:id/respond
   (server.ts 655-668) both call the agent, and requests interleave at every
   await. *)

MaxResponders == 3
Responders == 1..MaxResponders

\* the replies the workers handle: counter-offers saving 5 and -1, which are
\* countered, and one saving 6, which is accepted
RaceReplies ==
    { l \in LlmOutputs :
        /\ l.kind = "json" /\ ~l.accepted /\ ~l.rejected /\ l.hasCounter
        /\ l.counterOffer # NoPrices }

\* no handler has been started
NoResponders == <<>>

\* counterOffers: [...(negotiation.counterOffers || []), analysis.counterOffer],
\* negotiation being the row as loaded
CounterOffersWritten(snapshot, current, counterOffer) ==
    Append(snapshot.counterOffers, counterOffer)

\* a handler takes up a reply to negotiation n: findUnique with the messages,
\* then the inbound NegotiationMessage
ResponseLoad(n) ==
    /\ Len(responders) < MaxResponders
    /\ n \in 1..Len(negotiations)
    /\ responders' = Append(responders,
                            [pc |-> "loaded", neg |-> n, snapshot |-> negotiations[n],
                             appended |-> FALSE])
    /\ negotiations' = [negotiations EXCEPT
          ![n].messages = Append(@, Msg("inbound", "reply"))]
    /\ UNCHANGED <<outbox, last>>

\* handler w goes on from the classifier's answer to its return
ResponseFinish(w, llm, genOk, sendOk) ==
    /\ w \in 1..Len(responders)
    /\ responders[w].pc = "loaded"
    /\ LET n == responders[w].neg
           snapshot == responders[w].snapshot
           current == negotiations[n]
           analysis == analyzeResponse(llm, snapshot)
           round == Round(snapshot)
           eval == evaluateCounterOffer(analysis.counterOffer, snapshot.products)
           history == CounterOffersWritten(snapshot, current, analysis.counterOffer)
           Done(row, sent, res, mail, appended) ==
               /\ negotiations' = [negotiations EXCEPT ![n] = row]
               /\ outbox' = [outbox EXCEPT ![n] = sent]
               /\ last' = Call("process_response", n, llm, res, mail)
               /\ responders' = [responders EXCEPT ![w].pc = "done",
                                                   ![w].appended = appended]
       IN  IF analysis.threw
           THEN Done(current, outbox[n], Caught("error"), "none", FALSE)
           ELSE IF analysis.accepted
           THEN Done([current EXCEPT !.status = "accepted",
                                     !.hasFinalTerms = analysis.hasCounter,
                                     !.savings = analysis.savings,
                                     !.completed = TRUE],
                     outbox[n], Ok("accepted"), "none", FALSE)
           ELSE IF analysis.rejected
           THEN Done([current EXCEPT !.status = "rejected", !.completed = TRUE],
                     outbox[n], Ok("rejected"), "none", FALSE)
           ELSE IF analysis.hasCounter /\ round < MaxNegotiationRounds
           THEN IF eval.acceptable
                THEN LET row == [current EXCEPT !.status = "accepted",
                                                !.hasFinalTerms = TRUE,
                                                !.savings = eval.actualSavings,
                                                !.completed = TRUE,
                                                !.counterOffers = history]
                     IN IF sendOk
                        THEN Done(row, [outbox[n] EXCEPT !.acceptance = @ + 1],
                                  Ok("accepted"), "sent", TRUE)
                        ELSE Done(row, outbox[n], Caught("error"), "failed", TRUE)
                ELSE IF ~genOk
                     THEN Done(current, outbox[n], Caught("error"), "none", FALSE)
                     ELSE IF ~sendOk
                     THEN Done(current, outbox[n], Caught("error"), "failed", FALSE)
                     ELSE Done([current EXCEPT
                                   !.messages = Append(@, Msg("outbound", "counter")),
                                   !.counterOffers = history],
                               [outbox[n] EXCEPT !.counter = @ + 1],
                               Ok("counter_sent"), "sent", TRUE)
           ELSE IF analysis.hasCounter /\ eval.acceptable
                THEN Done([current EXCEPT !.status = "accepted",
                                          !.hasFinalTerms = TRUE,
                                          !.savings = eval.actualSavings,
                                          !.completed = TRUE],
                          outbox[n], Ok("accepted"), "none", FALSE)
                ELSE Done([current EXCEPT !.status = "expired", !.completed = TRUE],
                          outbox[n], Ok("no_agreement"), "none", FALSE)

----------------------------------------------------------------------------
(* scanSupplier calls running side by side: POST /api/suppliers/:id/scan
   (server.ts 535-543), the queue's worker and scanAllSuppliers all call
   scanSupplier, which awaits every store call, so two scans of one supplier
   interleave between any two of them. *)

MaxScanners == 2
Scanners == 1..MaxScanners

\* no scan has been started
NoScanners == <<>>

\* a scan up to the adapter's answer: supplier.findUnique with its
\* supplierProducts, scrapingJob.create, the adapter's result
ScannerBegin(supplierId, scraped) ==
    /\ Len(scanners) < MaxScanners
    /\ supplierId \in Suppliers
    /\ scrapingJobs' = Append(scrapingJobs,
                              [supplierId |-> supplierId, status |-> "running"])
    /\ scanners' = Append(scanners,
          [pc |-> "items", supplierId |-> supplierId,
           snapshot |-> [p \in Products |-> supplierProducts[<<supplierId, p>>]],
           scraped |-> scraped, next |-> 1, job |-> Len(scrapingJobs) + 1])
    /\ UNCHANGED <<supplierProducts, priceHistory, last>>

\* one turn of scan w's loop over scrapedProducts
ScannerItem(w) ==
    /\ w \in 1..Len(scanners)
    /\ scanners[w].pc = "items"
    /\ scanners[w].next <= Len(scanners[w].scraped)
    /\ LET scraped == scanners[w].scraped[scanners[w].next]
           existing == scanners[w].snapshot[scraped.sku]
           key == <<scanners[w].supplierId, scraped.sku>>
       IN IF existing.listed
          THEN /\ priceHistory' =
                     IF existing.unitPrice # scraped.price
                     THEN Append(priceHistory,
                                 HistoryRow(scanners[w].supplierId, scraped, existing))
                     ELSE priceHistory
               /\ supplierProducts' =
                     [supplierProducts EXCEPT ![key] = UpdatedProduct(existing, scraped)]
          ELSE UNCHANGED <<priceHistory, supplierProducts>>
    /\ scanners' = [scanners EXCEPT ![w].next = @ + 1]
    /\ UNCHANGED <<scrapingJobs, last>>

\* scan w after its loop: the ScrapingJob row is completed and the Result returned
ScannerFinish(w) ==
    /\ w \in 1..Len(scanners)
    /\ scanners[w].pc = "items"
    /\ scanners[w].next > Len(scanners[w].scraped)
    /\ scrapingJobs' = [scrapingJobs EXCEPT ![scanners[w].job].status = "completed"]
    /\ last' = Call("scan_supplier", 0, NoLlm, Ok("scanned"), "none")
    /\ scanners' = [scanners EXCEPT ![w].pc = "done"]
    /\ UNCHANGED <<supplierProducts, priceHistory>>

----------------------------------------------------------------------------
(* PortalAutomationService: getContext and shutdown.  getContext is called by
   the service's public async methods (loginToPortal and the others), which
   run side by side on the event loop; it yields at `await newContext`. *)

\* at most this many getContext calls
MaxGetContextCalls == 3
\* the callers that can be inside getContext at once
Callers == {"c1", "c2"}

IdleCaller == [pc |-> "idle", supplierId |-> "none", context |-> 0]

\* after initialize(): the browser launched, no context yet.  contexts is the
\* Map (0: no entry), created the BrowserContexts ever made, by id
NoPortal ==
    [contexts |-> [s \in Suppliers |-> 0],
     created |-> <<>>,
     browser |-> "open",
     callers |-> [c \in Callers |-> IdleCaller],
     shutdown |-> [pc |-> "idle", visited |-> {}],
     calls |-> 0]

\* getContext up to its first await: the entry of the map if there is one,
\* otherwise on to browser.newContext
GetContextBegin(c, supplierId) ==
    /\ portal.callers[c].pc # "creating"
    /\ portal.calls < MaxGetContextCalls
    /\ portal' = [portal EXCEPT
          !.calls = @ + 1,
          !.callers[c] =
              IF portal.contexts[supplierId] # 0
              THEN [pc |-> "returned", supplierId |-> supplierId,
                    context |-> portal.contexts[supplierId]]
              ELSE [pc |-> "creating", supplierId |-> supplierId, context |-> 0]]

\* browser.newContext resolves (it rejects once the browser is closed), the
\* context is put into the map under the supplier id and returned
GetContextCreated(c) ==
    /\ portal.callers[c].pc = "creating"
    /\ LET supplierId == portal.callers[c].supplierId
           id == Len(portal.created) + 1
       IN IF portal.browser = "closed"
          THEN portal' = [portal EXCEPT !.callers[c].pc = "threw"]
          ELSE portal' = [portal EXCEPT
                  !.created = Append(@, [supplierId |-> supplierId, closed |-> FALSE]),
                  !.contexts[supplierId] = id,
                  !.callers[c] = [pc |-> "returned", supplierId |-> supplierId,
                                  context |-> id]]

\* the suppliers the loop over this.contexts has still to visit; a Map's
\* iterator also comes to entries added while it runs
ToVisit == { s \in Suppliers : portal.contexts[s] # 0 /\ s \notin portal.shutdown.visited }

ShutdownBegin ==
    /\ portal.shutdown.pc = "idle"
    /\ portal' = [portal EXCEPT !.shutdown.pc = "closing"]

\* one turn of the loop: await context.close()
ShutdownCloseContext(s) ==
    /\ portal.shutdown.pc = "closing"
    /\ s \in ToVisit
    /\ portal' = [portal EXCEPT
          !.created[portal.contexts[s]].closed = TRUE,
          !.shutdown.visited = @ \cup {s}]

\* this.contexts.clear(), run in the same turn as the end of the loop
ShutdownClear ==
    /\ portal.shutdown.pc = "closing"
    /\ ToVisit = {}
    /\ portal' = [portal EXCEPT
          !.contexts = [s \in Suppliers |-> 0],
          !.shutdown.pc = "cleared"]

\* await this.browser.close(): the browser closes with all of its contexts
ShutdownBrowserClose ==
    /\ portal.shutdown.pc = "cleared"
    /\ portal' = [portal EXCEPT
          !.browser = "closed",
          !.created = [i \in 1..Len(portal.created) |->
                          [portal.created[i] EXCEPT !.closed = TRUE]],
          !.shutdown.pc = "done"]

----------------------------------------------------------------------------
(* The Diplomat runner process (diplomat/runner.ts) *)

\* at most this many negotiations next to the runner
MaxExpiryNegotiations == 1

\* the process before runDiplomat() is called
NoRunner == [pc |-> "start"]

\* runDiplomat() to its end: the in_progress negotiations are loaded, those
\* whose expiresAt lies before now are updated to expired, the signal
\* handlers and the interval timer are installed
RunnerStart ==
    /\ runner.pc = "start"
    /\ negotiations' =
            [n \in 1..Len(negotiations) |->
                IF negotiations[n].status = "in_progress" /\ negotiations[n].expiryPassed
                THEN [negotiations[n] EXCEPT !.status = "expired", !.completed = TRUE]
                ELSE negotiations[n]]
    /\ last' = Call("run_diplomat", 0, NoLlm, Ok("checked"), "none")
    /\ runner' = [runner EXCEPT !.pc = "running"]
    /\ UNCHANGED outbox

\* the interval timer fires, every 60000 ms: its callback is entered
RunnerTick ==
    /\ runner.pc = "running"
    /\ runner' = [runner EXCEPT !.pc = "callback"]
    /\ UNCHANGED <<negotiations, outbox, last>>

\* the callback returns: its body is empty
RunnerTickReturns ==
    /\ runner.pc = "callback"
    /\ runner' = [runner EXCEPT !.pc = "running"]
    /\ UNCHANGED <<negotiations, outbox, last>>

----------------------------------------------------------------------------
(* StrategistAgent.predictStockouts *)

\* at most this many forecast runs
MaxForecastRuns == 2

\* analyzeConsumption's trend, in thousandths: (recent - older) / older
TrendChoices == {0, 1000}

\* no forecast run yet: no StockoutPrediction row
NoStockoutPredictions == [rows |-> <<>>, runs |-> 0]

\* combinePredicitions over simpleStockoutPrediction and trendBasedPrediction:
\* Math.floor of the average of availableStock / daily and
\* availableStock / (daily * (1 + trend * 0.5)), each 365 for a rate of 0
CombinedDaysUntilStockout(item, daily, trend) ==
    IF daily > 0
    THEN ((item.currentStock - item.reservedStock) * (4000 + trend))
            \div (2 * daily * (2000 + trend))
    ELSE 365

\* the row of prisma.stockoutPrediction.create; createdInRun stands for the
\* row's timestamp
PredictionRow(i, days, run) ==
    [inventoryItemId |-> i, daysUntil |-> days,
     suggestedAction |-> IF days <= 3 THEN "expedite" ELSE "reorder",
     createdInRun |-> run]

\* the rows one run stores: one for each item predicted to run out within
\* twice the threshold, in the order of the items
RECURSIVE RowsOfRun(_, _, _, _, _)
RowsOfRun(items, i, rates, trend, run) ==
    IF i > Len(items) THEN <<>>
    ELSE LET days == CombinedDaysUntilStockout(items[i], rates[i], trend)
             rest == RowsOfRun(items, i + 1, rates, trend, run)
         IN IF days <= StockoutThresholdDays * 2
            THEN <<PredictionRow(i, days, run)>> \o rest
            ELSE rest

\* predictStockouts stores with create alone: the rows of earlier runs stay
RowsAfterRun(stored, new) == stored \o new

\* predictStockouts for an organization; rates: consumption.daily per item
PredictStockouts(org, rates, trend, dbOk) ==
    /\ stockoutPredictions.runs < MaxForecastRuns
    /\ IF dbOk
       THEN /\ stockoutPredictions' =
                  [rows |-> RowsAfterRun(stockoutPredictions.rows,
                                         RowsOfRun(inventoryItems, 1, rates, trend,
                                                   stockoutPredictions.runs + 1)),
                   runs |-> stockoutPredictions.runs + 1]
            /\ last' = Call("predict_stockouts", 0, NoLlm, Ok("predicted"), "none")
       ELSE /\ stockoutPredictions' = [stockoutPredictions EXCEPT !.runs = @ + 1]
            /\ last' = Call("predict_stockouts", 0, NoLlm, Caught("error"), "none")

\* no request made, no strategist task and no stock check run
SideIdle ==
    /\ statusRequest = NoStatusRequest
    /\ strategist = NoStrategistCall
    /\ stockCheck = NoStockCheck
    /\ responders = NoResponders
    /\ scanners = NoScanners
    /\ portal = NoPortal
    /\ runner = NoRunner
    /\ stockoutPredictions = NoStockoutPredictions

NegInit ==
    /\ negotiations = <<>>
    /\ outbox = <<>>
    /\ last = NoCall

QueueInit ==
    /\ jobs = <<>>
    /\ agentTasks = <<>>
    /\ activityLog = <<>>
    /\ cyclePc = 0

\* no scan made yet
NoScan ==
    [pc |-> "idle", supplierId |-> "none", snapshot |-> [p \in Products |-> Unlisted],
     scraped |-> <<>>, next |-> 1, job |-> 0, historyBefore |-> 0, runs |-> 0]

\* no scanAllSuppliers call made yet
NoScanAll ==
    [pc |-> "idle", todo |-> <<>>, started |-> <<>>, results |-> <<>>, waitedMs |-> 0]

ScanIdle ==
    /\ priceHistory = <<>>
    /\ scrapingJobs = <<>>
    /\ scan = NoScan
    /\ activeSuppliers = Suppliers
    /\ scanAll = NoScanAll
    /\ SideIdle

\* an empty store
StoreInit ==
    /\ inventoryItems = <<>>
    /\ supplierProducts = NoOffers
    /\ ScanIdle

Init == NegInit /\ QueueInit /\ StoreInit

\* a store holding inventory and supplier offers
ReorderInit ==
    /\ NegInit
    /\ QueueInit
    /\ ScanIdle
    /\ inventoryItems \in InventoryChoices
    /\ supplierProducts \in [Suppliers \X Products -> OfferChoices]

\* NegSpec follows one negotiation from its creation on (every handler reads
\* and writes only the row its id names); id 2 is never created and stands
\* for an unknown negotiation id.
NegotiationIds == {1, 2}

NegNext ==
    \/ \E payload \in PayloadChoices, lookup \in {"ok", "not_found", "no_email"},
          llmOk \in BOOLEAN, sendOk \in BOOLEAN :
            /\ negotiations = <<>>
            /\ InitiateNegotiation(payload, lookup, llmOk, sendOk)
            /\ UNCHANGED <<queueVars, storeVars>>
    \/ \E n \in NegotiationIds :
            \* the bound on replies, and an unknown id being answered before any
            \* of the inputs is read, are decided once for all inputs
            /\ n \in 1..Len(negotiations) => TotalInbound < MaxInbound
            /\ \E llm \in LlmOutputs, genOk \in BOOLEAN, sendOk \in BOOLEAN :
                  /\ n \notin 1..Len(negotiations)
                        => llm.kind = "garbage" /\ genOk /\ sendOk
                  /\ ProcessNegotiationResponse(n, llm, genOk, sendOk)
                  /\ UNCHANGED <<queueVars, storeVars>>
    \/ \E n \in NegotiationIds : PostNegotiationMessage(n) /\ UNCHANGED <<queueVars, storeVars>>
    \/ \E n \in NegotiationIds : ClockPassesExpiry(n) /\ UNCHANGED <<queueVars, storeVars>>
    \/ RunDiplomat /\ UNCHANGED <<queueVars, storeVars>>

NegSpec == Init /\ [][NegNext]_vars

\* the queue under tasks enqueued one by one, database failures included
QueueNext ==
    \/ (\E task \in AdHocTasks : QueueTask(task)) /\ UNCHANGED storeVars
    \/ (\E j \in JobIds : JobStart(j)) /\ UNCHANGED storeVars
    \/ (\E j \in JobIds : \E env \in Envs(jobs[j]), logOk \in BOOLEAN :
            JobFinish(j, env, logOk)) /\ UNCHANGED storeVars
    \/ (\E j \in JobIds : BackoffElapses(j)) /\ UNCHANGED storeVars

QueueSpec == Init /\ [][QueueNext]_vars

\* the procurement cycle on a queue that other callers use too, with the
\* database up
CycleNext ==
    \/ RunProcurementCycle /\ UNCHANGED storeVars
    \/ (\E task \in OtherTasks : QueueTask(task)) /\ UNCHANGED storeVars
    \/ (\E j \in JobIds : JobStart(j)) /\ UNCHANGED storeVars
    \/ (\E j \in JobIds : \E env \in Envs(jobs[j]) : JobFinish(j, env, TRUE))
          /\ UNCHANGED storeVars

CycleSpec == Init /\ [][CycleNext]_vars

\* ReorderSpec follows one autoReorder call for organization org1 and the
\* jobs it enqueues
ReorderNext ==
    \/ jobs = <<>> /\ last = NoCall /\ AutoReorder("org1")
    \/ (\E j \in JobIds : JobStart(j)) /\ UNCHANGED storeVars

ReorderSpec == ReorderInit /\ [][ReorderNext]_vars

\* a store in which supplier S1 lists some of the products
ScanInit ==
    /\ NegInit
    /\ QueueInit
    /\ ScanIdle
    /\ inventoryItems = <<>>
    /\ supplierProducts \in
          { offers \in [Suppliers \X Products -> OfferChoices] :
                \A p \in Products : offers[<<"S2", p>>] = Unlisted }

ScanNext ==
    \/ /\ scan.pc = "idle"
       /\ \E supplierId \in ScanTargets, adapter \in {"ok", "throws"},
             scraped \in ScrapeResults :
               ScanBegin(supplierId, adapter, scraped) /\ UNCHANGED <<batchVars, sideVars>>
    \/ ScanItem /\ UNCHANGED <<batchVars, sideVars>>
    \/ ScanFinish /\ UNCHANGED <<batchVars, sideVars>>

ScanSpec == ScanInit /\ [][ScanNext]_vars

\* scans against a store whose calls can reject in the middle of a scan
ScanFaultNext ==
    \/ /\ scan.pc = "idle"
       /\ \E supplierId \in ScanTargets, adapter \in {"ok", "throws"},
             scraped \in ScrapeResults :
               ScanBegin(supplierId, adapter, scraped) /\ UNCHANGED <<batchVars, sideVars>>
    \/ ScanItem /\ UNCHANGED <<batchVars, sideVars>>
    \/ (\E at \in {"history", "update"} : ScanItemFails(at))
          /\ UNCHANGED <<batchVars, sideVars>>
    \/ ScanFinish /\ UNCHANGED <<batchVars, sideVars>>

ScanFaultSpec == ScanInit /\ [][ScanFaultNext]_vars

\* a store in which each supplier lists product A, with any of the suppliers
\* active
ScanAllInit ==
    /\ NegInit
    /\ QueueInit
    /\ priceHistory = <<>>
    /\ scrapingJobs = <<>>
    /\ scan = NoScan
    /\ scanAll = NoScanAll
    /\ SideIdle
    /\ inventoryItems = <<>>
    /\ activeSuppliers \in SUBSET Suppliers
    /\ supplierProducts \in
          { offers \in [Suppliers \X Products -> OfferChoices] :
                \A s \in Suppliers : /\ offers[<<s, "A">>] = Offer(10, TRUE)
                                     /\ offers[<<s, "B">>] = Unlisted }

ScanAllNext ==
    \/ (\E order \in SupplierOrderings : ScanAllBegin(order)) /\ UNCHANGED sideVars
    \/ \E adapter \in {"ok", "throws"}, scraped \in ScrapeResults :
            ScanAllScan(adapter, scraped) /\ UNCHANGED sideVars
    \/ ScanItem /\ UNCHANGED <<batchVars, sideVars>>
    \/ ScanFinish /\ UNCHANGED <<batchVars, sideVars>>
    \/ ScanAllRecord /\ UNCHANGED sideVars
    \/ ScanAllDelay /\ UNCHANGED sideVars
    \/ ScanAllFinish /\ UNCHANGED sideVars

ScanAllSpec == ScanAllInit /\ [][ScanAllNext]_vars

\* status requests, one at a time, against a queue backend that may answer,
\* fail or hang; timers and the store's queries do not hang
StatusNext ==
    \/ (\E route \in StatusRoutes, scoutHealthy \in BOOLEAN :
            StatusRequestBegin(route, scoutHealthy))
          /\ UNCHANGED <<dataVars, strategist, stockCheck, extraVars>>
    \/ (\E ok \in BOOLEAN : StoreQueriesSettle(ok))
          /\ UNCHANGED <<dataVars, strategist, stockCheck, extraVars>>
    \/ (\E counts \in QueueCounts : QueueStatusResolves(counts))
          /\ UNCHANGED <<dataVars, strategist, stockCheck, extraVars>>
    \/ QueueStatusRejects
          /\ UNCHANGED <<dataVars, strategist, stockCheck, extraVars>>
    \/ TimerFires
          /\ UNCHANGED <<dataVars, strategist, stockCheck, extraVars>>

\* a store of two stocked items and the suppliers' offers for them (product
\* B is sold by S1 only)
StrategistInit ==
    /\ NegInit
    /\ QueueInit
    /\ ScanIdle
    /\ inventoryItems \in StockedInventoryChoices
    /\ supplierProducts \in
          { offers \in [Suppliers \X Products -> OfferChoices] :
                offers[<<"S2", "B">>] = Unlisted }

\* one strategist task on that store
StrategistNext ==
    \/ \E dbOk \in BOOLEAN : AnalyzeInventory("org1", dbOk)
    \/ \E item \in PredictionItems, daily \in DailyRates :
            SimpleStockoutPrediction(item, daily)
    \/ \E dbOk \in BOOLEAN : GenerateReorderSuggestions("org1", dbOk)

StrategistSpec == StrategistInit /\ [][StrategistNext]_vars

\* a store of supplier offers with their stock columns
StockCheckInit ==
    /\ NegInit
    /\ QueueInit
    /\ ScanIdle
    /\ inventoryItems = <<>>
    /\ supplierProducts \in [Suppliers \X Products -> StockedOfferChoices]

StockCheckNext ==
    \E supplierId \in Suppliers, productSku \in Products, api \in StockApis,
       dbOk \in BOOLEAN :
        checkStock(supplierId, productSku, api, dbOk)

StockCheckSpec == StockCheckInit /\ [][StockCheckNext]_vars

\* negotiations, the clock and the runner process; the runner and its timer
\* are scheduled fairly, and time passes
ExpiryNext ==
    \/ \E payload \in PayloadChoices, sendOk \in BOOLEAN :
            /\ Len(negotiations) < MaxExpiryNegotiations
            /\ InitiateNegotiation(payload, "ok", TRUE, sendOk)
            /\ UNCHANGED <<runner, runnerRest>>
    \/ \E n \in NegotiationIds, llm \in LlmOutputs, genOk \in BOOLEAN, sendOk \in BOOLEAN :
            ProcessNegotiationResponse(n, llm, genOk, sendOk)
                /\ UNCHANGED <<runner, runnerRest>>
    \/ \E n \in NegotiationIds : ClockPassesExpiry(n) /\ UNCHANGED <<runner, runnerRest>>
    \/ RunnerStart /\ UNCHANGED runnerRest
    \/ RunnerTick /\ UNCHANGED runnerRest
    \/ RunnerTickReturns /\ UNCHANGED runnerRest

ExpirySpec ==
    /\ Init
    /\ [][ExpiryNext]_vars
    /\ WF_vars(RunnerStart /\ UNCHANGED runnerRest)
    /\ WF_vars(RunnerTick /\ UNCHANGED runnerRest)
    /\ WF_vars(RunnerTickReturns /\ UNCHANGED runnerRest)
    /\ \A n \in NegotiationIds :
          WF_vars(ClockPassesExpiry(n) /\ UNCHANGED <<runner, runnerRest>>)

\* an inventory of two items and the forecast runs over it
ForecastInit ==
    /\ NegInit
    /\ QueueInit
    /\ ScanIdle
    /\ inventoryItems \in StockedInventoryChoices
    /\ supplierProducts = NoOffers

ForecastNext ==
    \E rates \in [1..2 -> DailyRates], trend \in TrendChoices, dbOk \in BOOLEAN :
        /\ PredictStockouts("org1", rates, trend, dbOk)
        /\ UNCHANGED forecastRest

ForecastSpec == ForecastInit /\ [][ForecastNext]_vars

PortalNext ==
    \/ \E c \in Callers, supplierId \in Suppliers :
            GetContextBegin(c, supplierId) /\ UNCHANGED portalRest
    \/ \E c \in Callers : GetContextCreated(c) /\ UNCHANGED portalRest
    \/ ShutdownBegin /\ UNCHANGED portalRest
    \/ \E s \in Suppliers : ShutdownCloseContext(s) /\ UNCHANGED portalRest
    \/ ShutdownClear /\ UNCHANGED portalRest
    \/ ShutdownBrowserClose /\ UNCHANGED portalRest

PortalSpec == Init /\ [][PortalNext]_vars

\* scans that overlap, against a store in which supplier S1 lists some of the
\* products
ScanRaceNext ==
    \/ \E supplierId \in Suppliers, scraped \in ScrapeResults :
            /\ ScannerBegin(supplierId, scraped)
            /\ UNCHANGED <<negotiations, outbox, queueVars, inventoryItems, scan, batchVars,
                           statusRequest, strategist, stockCheck, responders, portal,
                           runner, stockoutPredictions>>
    \/ \E w \in Scanners :
            /\ ScannerItem(w)
            /\ UNCHANGED <<negotiations, outbox, queueVars, inventoryItems, scan, batchVars,
                           statusRequest, strategist, stockCheck, responders, portal,
                           runner, stockoutPredictions>>
    \/ \E w \in Scanners :
            /\ ScannerFinish(w)
            /\ UNCHANGED <<negotiations, outbox, queueVars, inventoryItems, scan, batchVars,
                           statusRequest, strategist, stockCheck, responders, portal,
                           runner, stockoutPredictions>>

ScanRaceSpec == ScanInit /\ [][ScanRaceNext]_vars

\* one negotiation and the replies to it that are handled at the same time
RaceNext ==
    \/ \E payload \in PayloadChoices, sendOk \in BOOLEAN :
            /\ negotiations = <<>>
            /\ InitiateNegotiation(payload, "ok", TRUE, sendOk)
            /\ UNCHANGED <<queueVars, storeVars>>
    \/ \E n \in {1} :
            /\ ResponseLoad(n)
            /\ UNCHANGED <<queueVars, inventoryItems, supplierProducts, priceHistory,
                           scrapingJobs, scan, batchVars, statusRequest, strategist,
                           stockCheck, scanners, portal, runner, stockoutPredictions>>
    \/ \E w \in Responders, llm \in RaceReplies, genOk \in BOOLEAN, sendOk \in BOOLEAN :
            /\ ResponseFinish(w, llm, genOk, sendOk)
            /\ UNCHANGED <<queueVars, inventoryItems, supplierProducts, priceHistory,
                           scrapingJobs, scan, batchVars, statusRequest, strategist,
                           stockCheck, scanners, portal, runner, stockoutPredictions>>

RaceSpec == Init /\ [][RaceNext]_vars

StatusSpec ==
    /\ Init
    /\ [][StatusNext]_vars
    /\ WF_vars(TimerFires /\ UNCHANGED <<dataVars, strategist, stockCheck, extraVars>>)
    /\ WF_vars((\E ok \in BOOLEAN : StoreQueriesSettle(ok)) /\ UNCHANGED <<dataVars, strategist, stockCheck, extraVars>>)


----------------------------------------------------------------------------
(* Claims about the negotiation state machine *)

Status(n) == negotiations[n].status
InboundCount(n) == CountInbound(negotiations[n].messages)
HasFollowUp(n) == CountFollowUps(negotiations[n].messages) > 0

\* the last call handled a supplier reply for an existing negotiation that
\* was in_progress when the reply arrived
HandledReply ==
    /\ last.op = "process_response"
    /\ last.neg \in 1..Len(negotiations)
    /\ last.statusBefore = "in_progress"

\* the reply was classified as a counter-offer: parsed, neither accepted nor
\* rejected, with a counterOffer object
ClassifiedCounter ==
    /\ last.llm.kind = "json"
    /\ ~last.llm.accepted /\ ~last.llm.rejected
    /\ last.llm.hasCounter

\* The counter-offer's savings as the claims state them: the sum over the
\* products of (currentPrice - counterPrice) x quantity, a product the
\* counter-offer does not quote keeping its current price; at least 2.5% of
\* the original total means 40 x savings >= total.
QuotedSavings(counterOffer, products) ==
    SumSeq([i \in 1..Len(products) |->
        IF products[i].sku \in DOMAIN counterOffer /\ counterOffer[products[i].sku] > 0
        THEN (products[i].currentPrice - counterOffer[products[i].sku]) * products[i].quantity
        ELSE 0])

OriginalTotal(products) ==
    SumSeq([i \in 1..Len(products) |-> products[i].currentPrice * products[i].quantity])

SavesAtLeastHalfTarget(counterOffer, products) ==
    /\ OriginalTotal(products) > 0
    /\ 40 * QuotedSavings(counterOffer, products) >= OriginalTotal(products)

\* C1: a negotiation reaches at most one terminal state: once its status is
\* accepted, rejected or expired, no later operation changes the status.
C1_TerminalIsFinal ==
    [][\A n \in 1..Len(negotiations) :
          Status(n) \in Terminal => negotiations'[n].status = Status(n)]_vars

\* C2: a reply classified as a counter-offer has exactly one of three
\* outcomes: accepted when it saves at least 2.5%; otherwise a counter-email
\* is sent and the status stays in_progress while rounds remain, and the
\* status becomes expired when they are exhausted.
C2_CounterOfferOutcome ==
    (HandledReply /\ ClassifiedCounter) =>
        LET n == last.neg
            good == SavesAtLeastHalfTarget(last.llm.counterOffer, negotiations[n].products)
            roundsRemain == last.outboundBefore + 1 < MaxNegotiationRounds
        IN  /\ good => Status(n) = "accepted"
            /\ (~good /\ roundsRemain) =>
                    /\ Status(n) = "in_progress"
                    /\ last.mail = "sent" /\ last.outcome = "counter_sent"
            /\ (~good /\ ~roundsRemain) => Status(n) = "expired"

\* The decision of C2 in the calls whose outbound email, if any, went out.
C2_OutcomeWhenMailGoesOut ==
    (HandledReply /\ ClassifiedCounter /\ last.success) =>
        LET n == last.neg
            good == SavesAtLeastHalfTarget(last.llm.counterOffer, negotiations[n].products)
            roundsRemain == last.outboundBefore + 1 < MaxNegotiationRounds
        IN  /\ good => Status(n) = "accepted"
            /\ (~good /\ roundsRemain) =>
                    /\ Status(n) = "in_progress"
                    /\ last.mail = "sent" /\ last.outcome = "counter_sent"
            /\ (~good /\ ~roundsRemain) => Status(n) = "expired"

\* the negotiation of the last call was initiated with its email sent, got
\* no follow-up, and every reply before the one just handled was a
\* counter-offer that was answered with a counter-email
OnlyCountersSoFar(n) ==
    /\ negotiations[n].messages # <<>>
    /\ negotiations[n].messages[1] = Msg("outbound", "initial")
    /\ ~HasFollowUp(n)
    /\ last.outboundBefore = InboundCount(n)

\* C3: with maxRounds = 3 and only unacceptable counter-offers, the first two
\* replies are each answered with a counter-email (status in_progress), the
\* third sets the status to expired, and the status is never accepted.
C3_ThreeRounds ==
    (/\ HandledReply /\ ClassifiedCounter /\ last.success
     /\ OnlyCountersSoFar(last.neg)
     /\ ~SavesAtLeastHalfTarget(last.llm.counterOffer, negotiations[last.neg].products)) =>
        LET n == last.neg IN
        /\ Status(n) # "accepted"
        /\ InboundCount(n) <= 2 =>
                (Status(n) = "in_progress" /\ last.outcome = "counter_sent")
        /\ InboundCount(n) = 3 => Status(n) = "expired"

\* C4: when the classification call fails or its response is not JSON, the
\* negotiation stalls: its status stays in_progress.
C4_AmbiguousReplyStalls ==
    (HandledReply /\ last.llm.kind \in {"throws", "garbage"}) =>
        Status(last.neg) = "in_progress"

----------------------------------------------------------------------------
(* Claims about the queue *)

Finishing(j) == jobs[j].state = "active" /\ jobs'[j].state # "active"
Completing(j) == jobs[j].state = "active" /\ jobs'[j].state = "completed"
HasStarted(j) == jobs[j].state # "waiting" \/ jobs[j].attemptsMade > 0

\* C5: a job whose handler failed to send its email does not complete: the
\* attempt fails and the job is retried after a backoff or, after the third
\* attempt, moved to the failed set.
C5_SendFailureFailsJob ==
    [][\A j \in JobIds :
          (Finishing(j) /\ last'.mail = "failed")
              => /\ jobs'[j].state \in {"delayed", "failed"}
                 /\ jobs'[j].attemptsMade = jobs[j].attemptsMade + 1
                 /\ jobs'[j].state = "failed" <=> jobs'[j].attemptsMade = 3]_vars

CycleJobs == SelectSeq(jobs, LAMBDA job : job.origin = "cycle")

\* C8: runProcurementCycle enqueues scan_all_suppliers at priority 1,
\* analyze_inventory and predict_stockouts at 2 and
\* generate_reorder_suggestions at 3, and none of them starts while one of
\* them with a lower priority number has yet to start.
C8_CyclePriorities ==
    /\ [i \in 1..Len(CycleJobs) |->
           <<CycleJobs[i].agentType, CycleJobs[i].taskType, CycleJobs[i].priority>>]
         = SubSeq(<< <<"scout", "scan_all_suppliers", 1>>,
                     <<"strategist", "analyze_inventory", 2>>,
                     <<"strategist", "predict_stockouts", 2>>,
                     <<"strategist", "generate_reorder_suggestions", 3>> >>,
                  1, cyclePc)
    /\ \A j, k \in JobIds :
          (/\ jobs[j].origin = "cycle"
           /\ jobs[k].origin = "cycle"
           /\ jobs[j].priority < jobs[k].priority
           /\ HasStarted(k))
              => HasStarted(j)

\* the whole cycle was enqueued before its first job started, and all four ran
C8_Witness ==
    /\ cyclePc = 4
    /\ Len(activityLog) >= 4
    /\ \A j \in JobIds : jobs[j].state = "completed"
    /\ \E j \in JobIds : jobs[j].origin = "adhoc" /\ jobs[j].priority = 1

----------------------------------------------------------------------------
(* Claims about autoReorder *)

\* places <<job, position>> of the enqueued tasks' product lists that name
\* the product
PlacesOf(productId) ==
    { pl \in JobIds \X {1, 2} :
        /\ pl[2] <= Len(jobs[pl[1]].payload)
        /\ jobs[pl[1]].payload[pl[2]].productId = productId }

Price(s, productId) == supplierProducts[<<s, productId>>].unitPrice

SellsFromStock(s, productId) ==
    supplierProducts[<<s, productId>>].listed /\ supplierProducts[<<s, productId>>].inStock

\* an item of org1 at or below its reorder point
IsDue(item) ==
    item.organizationId = "org1" /\ ~(item.currentStock > item.reorderPoint)

----------------------------------------------------------------------------
(* Claims about scanSupplier *)

ScanCompleted == scan.pc = "idle" /\ last.op = "scan_supplier" /\ last.success

\* the scraped items of the completed scan whose price differs from the
\* price stored for their sku when the scan began
ChangedItems ==
    { k \in 1..Len(scan.scraped) :
        /\ scan.snapshot[scan.scraped[k].sku].listed
        /\ scan.snapshot[scan.scraped[k].sku].unitPrice # scan.scraped[k].price }

StoredPrice(sku) == supplierProducts[<<scan.supplierId, sku>>].unitPrice

HistoryHas(sku, price) ==
    \E h \in 1..Len(priceHistory) :
        /\ priceHistory[h].supplierId = scan.supplierId
        /\ priceHistory[h].productSku = sku
        /\ priceHistory[h].price = price

\* C10 as stated: after a completed scan, for every scraped item whose price
\* differs from the stored price, a PriceHistory row holds the price stored
\* before the scan and the SupplierProduct row holds the scraped price.
C10_HistoryHoldsPreviousPrice ==
    ScanCompleted =>
        \A k \in ChangedItems :
            /\ HistoryHas(scan.scraped[k].sku, scan.snapshot[scan.scraped[k].sku].unitPrice)
            /\ StoredPrice(scan.scraped[k].sku) = scan.scraped[k].price

\* C10 amended: after a completed scan, for every scraped item whose price
\* differs from the price stored when the scan began, the scan has inserted
\* a PriceHistory row holding the scraped price, and the SupplierProduct row
\* of each scraped sku holds the price of the last scraped item of that sku.
C10_HistoryHoldsScrapedPrice ==
    ScanCompleted =>
        /\ \A k \in ChangedItems :
              \E h \in (scan.historyBefore + 1)..Len(priceHistory) :
                  /\ priceHistory[h].supplierId = scan.supplierId
                  /\ priceHistory[h].productSku = scan.scraped[k].sku
                  /\ priceHistory[h].price = scan.scraped[k].price
        /\ Len(priceHistory) - scan.historyBefore = Cardinality(ChangedItems)
        /\ \A k \in 1..Len(scan.scraped) :
              (/\ scan.snapshot[scan.scraped[k].sku].listed
               /\ \A m \in (k + 1)..Len(scan.scraped) :
                     scan.scraped[m].sku # scan.scraped[k].sku)
                  => StoredPrice(scan.scraped[k].sku) = scan.scraped[k].price

\* a completed scan that found product A at 12 where 10 was stored
C10_Witness ==
    /\ ScanCompleted
    /\ \E k \in ChangedItems :
          /\ scan.snapshot[scan.scraped[k].sku].unitPrice = 10
          /\ scan.scraped[k].price = 12
          /\ StoredPrice(scan.scraped[k].sku) = 12
    /\ Len(priceHistory) > 0

\* the price of the last item of the completed scan's result that names the sku
LastScrapedPrice(sku) ==
    LET at == { k \in 1..Len(scan.scraped) : scan.scraped[k].sku = sku }
        last_k == CHOOSE k \in at : \A m \in at : m <= k
    IN scan.scraped[last_k].price

\* the store the scan started from is the one a scan with this very result
\* leaves behind: the scan was a re-run with unchanged scraped prices
IsRescan ==
    \A k \in 1..Len(scan.scraped) :
        scan.snapshot[scan.scraped[k].sku].listed
            => scan.snapshot[scan.scraped[k].sku].unitPrice
                   = LastScrapedPrice(scan.scraped[k].sku)

\* C11: a scan that is re-run with unchanged scraped prices inserts no
\* PriceHistory row.
C11_RescanAddsNoHistory ==
    (ScanCompleted /\ IsRescan) => Len(priceHistory) = scan.historyBefore

\* no sku comes up twice in the completed scan's result
DistinctSkus ==
    \A k, m \in 1..Len(scan.scraped) :
        scan.scraped[k].sku = scan.scraped[m].sku => k = m

\* where every sku is scraped once, the re-run inserts nothing
C11_RescanOfDistinctSkus ==
    (ScanCompleted /\ IsRescan /\ DistinctSkus) => Len(priceHistory) = scan.historyBefore

\* C12: once scanSupplier has returned, no ScrapingJob row is left running:
\* the row of a scan whose adapter call failed is marked failed.
C12_FailedScanMarksJobFailed ==
    scan.pc = "idle" =>
        /\ \A j \in 1..Len(scrapingJobs) : scrapingJobs[j].status # "running"
        /\ (last.op = "scan_supplier" /\ last.outcome = "error")
              => scrapingJobs[Len(scrapingJobs)].status = "failed"

----------------------------------------------------------------------------
(* Claims about scanAllSuppliers *)

ScannedIds == { scanAll.results[i].supplierId : i \in 1..Len(scanAll.results) }

\* C13: scanAllSuppliers scans every active supplier exactly once, whether
\* or not an earlier scan failed; a supplier's scan starts only when all
\* scans started before it have returned and a 2000 ms delay has passed
\* after each of them.
C13_ScanAllSequential ==
    /\ scanAll.pc = "done"
          => /\ ScannedIds = activeSuppliers
             /\ Len(scanAll.results) = Cardinality(activeSuppliers)
    /\ \A i, k \in 1..Len(scanAll.started) :
          scanAll.started[i] = scanAll.started[k] => i = k
    /\ scanAll.pc = "scanning"
          => /\ Len(scanAll.started) = Len(scanAll.results) + 1
             /\ scanAll.waitedMs = 2000 * Len(scanAll.results)
    /\ scan.pc = "items"
          => /\ scanAll.pc = "scanning"
             /\ scan.supplierId = scanAll.started[Len(scanAll.started)]
    /\ scanAll.pc \in {"ready", "delay", "done"}
          => Len(scanAll.started) = Len(scanAll.results)

\* a batch of two suppliers in which the first scan failed and the second
\* succeeded
C13_Witness ==
    /\ scanAll.pc = "done"
    /\ Len(scanAll.results) = 2
    /\ ~scanAll.results[1].success
    /\ scanAll.results[2].success

----------------------------------------------------------------------------
(* Claims about status requests *)

\* the request's timer has fired with getQueueStatus still pending
QueueTimedOut ==
    /\ statusRequest.timer = "fired"
    /\ statusRequest.queue = "pending"

\* the queue counts a response carries
ResponseCounts ==
    IF statusRequest.route = "agents_status"
    THEN statusRequest.response.queue
    ELSE statusRequest.response.queueStatus

----------------------------------------------------------------------------
(* Claims about the StrategistAgent *)

Severity(urgency) ==
    IF urgency = "critical" THEN 2 ELSE IF urgency = "warning" THEN 1 ELSE 0

Analyzed == strategist.op = "analyze_inventory" /\ strategist.success

\* the classification as the claim words it
ClaimedUrgency(a) ==
    IF DaysAtMost(a.daysOfStock, 3) THEN "critical"
    ELSE IF DaysAtMost(a.daysOfStock, StockoutThresholdDays)
              \/ a.currentStock <= a.reorderPoint THEN "warning"
    ELSE "ok"

\* C15: the urgency analyzeInventory assigns is monotonic in daysOfStock: of
\* two analysed items with the same currentStock and reorderPoint, the one
\* with no more days of stock is classified at least as severe (ok < warning
\* < critical); daysOfStock <= 3 gives critical, daysOfStock <= threshold or
\* currentStock <= reorderPoint gives warning, anything else ok.
C15_UrgencyMonotonic ==
    Analyzed =>
        /\ \A i, k \in 1..Len(strategist.analyses) :
              LET a == strategist.analyses[i]
                  b == strategist.analyses[k]
              IN (/\ a.currentStock = b.currentStock
                  /\ a.reorderPoint = b.reorderPoint
                  /\ DaysLeq(a.daysOfStock, b.daysOfStock))
                    => Severity(a.urgency) >= Severity(b.urgency)
        /\ \A i \in 1..Len(strategist.analyses) :
              strategist.analyses[i].urgency = ClaimedUrgency(strategist.analyses[i])

\* two items with the same stock and reorder point, one critical with fewer
\* days of stock and one ok
C15_Witness ==
    /\ Analyzed
    /\ \E i, k \in 1..Len(strategist.analyses) :
          LET a == strategist.analyses[i]
              b == strategist.analyses[k]
          IN /\ a.currentStock = b.currentStock
             /\ a.reorderPoint = b.reorderPoint
             /\ ~DaysLeq(b.daysOfStock, a.daysOfStock)
             /\ a.urgency = "critical"
             /\ b.urgency = "ok"

Projected == strategist.op = "simple_stockout_prediction"

AvailableStock == strategist.item.currentStock - strategist.item.reservedStock

\* C16: the average-rate stockout projection is availableStock / dailyRate
\* when dailyRate > 0 (stock 100 at rate 10 gives 10 days) and Infinity when
\* dailyRate is 0.
C16_StockoutProjection ==
    Projected =>
        /\ strategist.daily > 0
              => /\ strategist.daysUntilStockout.den > 0
                 /\ DaysEqual(strategist.daysUntilStockout,
                              Days(AvailableStock, strategist.daily))
        /\ strategist.daily = 0 => strategist.daysUntilStockout = Infinity

\* the part of C16 for a positive rate
C16_PositiveRateDivides ==
    (Projected /\ strategist.daily > 0)
        => /\ strategist.daysUntilStockout.den > 0
           /\ DaysEqual(strategist.daysUntilStockout,
                        Days(AvailableStock, strategist.daily))

Suggested == strategist.op = "generate_reorder_suggestions" /\ strategist.success

\* the supplier groups of the result that hold a product
GroupsHolding(productId) ==
    { s \in DOMAIN strategist.suggestions :
        productId \in DOMAIN strategist.suggestions[s].items }

\* the suppliers with an in-stock offer of a product, and the lowest price
InStockSuppliers(productId) ==
    { s \in Suppliers : /\ supplierProducts[<<s, productId>>].listed
                        /\ supplierProducts[<<s, productId>>].inStock }

CheapestPrice(productId) ==
    CHOOSE price \in { supplierProducts[<<s, productId>>].unitPrice :
                          s \in InStockSuppliers(productId) } :
        \A s \in InStockSuppliers(productId) :
            price <= supplierProducts[<<s, productId>>].unitPrice

\* the urgent products that some supplier has in stock
OrderableUrgent ==
    { p \in UrgentProductIds(strategist.analyses) : InStockSuppliers(p) # {} }

ReorderQuantityOf(productId) ==
    (CHOOSE i \in InventoryItemOf(productId) : TRUE).reorderQuantity

RECURSIVE CheapestValue(_)
\* the sum over the products of reorderQuantity x cheapest in-stock price
CheapestValue(products) ==
    IF products = {} THEN 0
    ELSE LET p == CHOOSE q \in products : TRUE
         IN ReorderQuantityOf(p) * CheapestPrice(p) + CheapestValue(products \ {p})

\* C20: generateReorderSuggestions places each urgent product that has an
\* in-stock offer in exactly one supplier group, that of a supplier with the
\* cheapest in-stock offer, and the total value is the sum over those
\* products of reorderQuantity x the cheapest in-stock unit price.
C20_OneGroupPerProduct ==
    Suggested =>
        /\ \A p \in OrderableUrgent :
              /\ Cardinality(GroupsHolding(p)) = 1
              /\ \A s \in GroupsHolding(p) :
                    strategist.suggestions[s].items[p].unitPrice = CheapestPrice(p)
        /\ strategist.totalValue = CheapestValue(OrderableUrgent)

\* the same for stores in which no product has two in-stock offers
C20_SingleOfferProducts ==
    (Suggested /\ \A p \in OrderableUrgent : Cardinality(InStockSuppliers(p)) = 1)
        => /\ \A p \in OrderableUrgent : Cardinality(GroupsHolding(p)) = 1
           /\ strategist.totalValue = CheapestValue(OrderableUrgent)

----------------------------------------------------------------------------
(* Claims about the negotiation worker's emails and rounds *)

\* the outbound messages of negotiation n that the worker logged (the
\* follow-up route logs its own)
WorkerOutbound(n) ==
    Cardinality({ i \in 1..Len(negotiations[n].messages) :
                    /\ IsOutbound(negotiations[n].messages[i])
                    /\ ~IsFollowUp(negotiations[n].messages[i]) })

EmailsSent(n) == outbox[n].initial + outbox[n].counter + outbox[n].acceptance

\* C17: every email the negotiation worker sends for a negotiation (initial
\* offer, counter, acceptance) is recorded as an outbound NegotiationMessage:
\* the number of outbound messages the worker logged equals the number of
\* emails it sent.
C17_EveryEmailIsLogged ==
    \A n \in 1..Len(negotiations) : WorkerOutbound(n) = EmailsSent(n)

\* the same for the initial and the counter emails alone
C17_OffersAndCountersLogged ==
    \A n \in 1..Len(negotiations) :
        WorkerOutbound(n) = outbox[n].initial + outbox[n].counter

\* the last call handled a reply to an existing negotiation that the
\* classifier read as a counter-offer
HandledCounter ==
    /\ last.op = "process_response"
    /\ last.neg \in 1..Len(negotiations)
    /\ ClassifiedCounter

\* the call took the branch of round < maxRounds: it sent a counter-email,
\* or tried to send an email, or failed while drafting one
DecidedWithinRounds ==
    \/ last.outcome = "counter_sent"
    \/ last.mail \in {"sent", "failed"}
    \/ last.outcome = "error"

\* C18: the round processResponse uses is the number of outbound messages
\* in the negotiation's persisted message log plus one, and nothing else:
\* whatever else has happened to the negotiation (replies already logged by
\* a run that failed, its status), a counter-offer is handled as within the
\* rounds exactly when that number is below maxRounds.
C18_RoundFromMessageLog ==
    HandledCounter =>
        (DecidedWithinRounds <=> last.outboundBefore + 1 < MaxNegotiationRounds)

\* a reply handled again after a run that logged it and then failed to send:
\* the outbound log is the same and the counter-email now goes out
C18_Witness ==
    /\ HandledCounter
    /\ last.outcome = "counter_sent"
    /\ last.outboundBefore = 1
    /\ InboundCount(last.neg) = 2

----------------------------------------------------------------------------
(* Claims about checkStock *)

StockChecked == stockCheck.op = "check_stock" /\ stockCheck.success

FellBack == StockChecked /\ stockCheck.api.kind \in {"no_endpoint", "fails"}

CheckedRow == supplierProducts[<<stockCheck.supplierId, stockCheck.productSku>>]

\* C19: checkStock tries the supplier's API first; when the supplier has no
\* API endpoint or the API call fails, the stored inStock and stockLevel of
\* the SupplierProduct are what it reports, they stay as they were, and no
\* full scan is run.
C19_FallbackKeepsLastKnown ==
    /\ FellBack =>
          /\ stockCheck.data.inStock = stockCheck.before.inStock
          /\ stockCheck.data.stockLevel = stockCheck.before.stockLevel
          /\ CheckedRow.inStock = stockCheck.before.inStock
          /\ CheckedRow.stockLevel = stockCheck.before.stockLevel
    /\ StockChecked => (scrapingJobs = <<>> /\ scan = NoScan)

\* what holds of the fallback: no scan is run and the stored level is kept
C19_FallbackRunsNoScan ==
    /\ FellBack => CheckedRow.stockLevel = stockCheck.before.stockLevel
    /\ StockChecked => (scrapingJobs = <<>> /\ scan = NoScan)

\* an API that answers is what is reported and stored
C19_ApiAnswerIsUsed ==
    (StockChecked /\ stockCheck.api.kind = "answers" /\ stockCheck.api.in_stock # "absent")
        => /\ stockCheck.data.inStock = (stockCheck.api.in_stock = "true")
           /\ CheckedRow.inStock = stockCheck.data.inStock

----------------------------------------------------------------------------
(* Claims about scans that fail part-way and about the history they leave *)

\* the PriceHistory row a step inserts
InsertedRow == priceHistory'[Len(priceHistory')]

\* C21: the PriceHistory rows scanSupplier inserts reflect real transitions,
\* also when the scan fails part-way: whenever a scan inserts a PriceHistory
\* row for a (supplier, sku), the SupplierProduct of that supplier and sku is
\* updated to the row's price before the scan goes on or returns.
C21_HistoryReflectsUpdate ==
    [][Len(priceHistory') > Len(priceHistory) =>
          supplierProducts'[<<InsertedRow.supplierId, InsertedRow.productSku>>].unitPrice
              = InsertedRow.price]_vars

\* the same for the scans that run to completion
C21_CompletedScanHistory ==
    [][(Len(priceHistory') > Len(priceHistory) /\ last'.outcome # "error") =>
          supplierProducts'[<<InsertedRow.supplierId, InsertedRow.productSku>>].unitPrice
              = InsertedRow.price]_vars

----------------------------------------------------------------------------
(* Claims about replies handled concurrently *)

\* the handlers that have returned after writing a counter-offer to the history
Appenders(n) ==
    { w \in 1..Len(responders) : /\ responders[w].pc = "done"
                                 /\ responders[w].neg = n
                                 /\ responders[w].appended }

RECURSIVE IsPrefix(_, _)
IsPrefix(s, t) ==
    \/ s = <<>>
    \/ /\ t # <<>>
       /\ Head(s) = Head(t)
       /\ IsPrefix(Tail(s), Tail(t))

\* C22: the counter-offer history of a negotiation is append-only, also when
\* process_response tasks for it run concurrently: no step removes or
\* overwrites an entry, and the history holds one entry for every handler
\* that has written its counter-offer.
C22_CounterOffersAppendOnly ==
    [][\A n \in 1..Len(negotiations) :
          /\ IsPrefix(negotiations[n].counterOffers, negotiations'[n].counterOffers)
          /\ Len(negotiations'[n].counterOffers) = Cardinality(Appenders(n)')]_vars

\* C29: for one negotiation, the emails asking for a better price that the
\* worker sends (the initial email plus the counter-emails) never exceed
\* maxRounds, whatever the interleaving of the process_response tasks.
C29_EmailsWithinMaxRounds ==
    \A n \in 1..Len(negotiations) :
        outbox[n].initial + outbox[n].counter <= MaxNegotiationRounds

----------------------------------------------------------------------------
(* Claims about scans running side by side *)

\* the PriceHistory rows equal to row
RowsEqualTo(row) == { i \in 1..Len(priceHistory) : priceHistory[i] = row }

\* scans w1 and w2 of one supplier have both returned, and both saw item's
\* price differ from the same stored price
BothObserved(w1, w2, item) ==
    /\ w1 # w2
    /\ w1 \in 1..Len(scanners) /\ w2 \in 1..Len(scanners)
    /\ scanners[w1].pc = "done" /\ scanners[w2].pc = "done"
    /\ scanners[w1].supplierId = scanners[w2].supplierId
    /\ scanners[w1].scraped = <<item>> /\ scanners[w2].scraped = <<item>>
    /\ scanners[w1].snapshot[item.sku].listed
    /\ scanners[w1].snapshot[item.sku] = scanners[w2].snapshot[item.sku]
    /\ scanners[w1].snapshot[item.sku].unitPrice # item.price

\* C23: when two concurrent scans of one supplier both observe the same price
\* change, PriceHistory holds exactly one row for that change.
C23_OneRowPerObservedChange ==
    \A w1 \in Scanners, w2 \in Scanners, item \in ScrapedItems :
        BothObserved(w1, w2, item) =>
            Cardinality(RowsEqualTo(HistoryRow(scanners[w1].supplierId, item,
                                               scanners[w1].snapshot[item.sku]))) = 1

----------------------------------------------------------------------------
(* Claims about the portal service's browser contexts *)

\* the contexts made for supplier s that are still open
OpenContexts(s) ==
    { i \in 1..Len(portal.created) :
        portal.created[i].supplierId = s /\ ~portal.created[i].closed }

\* C24: the portal service holds at most one browser context per supplier id:
\* getContext calls for one supplier, repeated or concurrent, yield the same
\* context, and once shutdown() has returned every context ever created is
\* closed and the map is empty.
C24_OneContextPerSupplier ==
    /\ \A s \in Suppliers : Cardinality(OpenContexts(s)) <= 1
    /\ \A c1 \in Callers, c2 \in Callers :
          ( /\ portal.callers[c1].pc = "returned"
            /\ portal.callers[c2].pc = "returned"
            /\ portal.callers[c1].supplierId = portal.callers[c2].supplierId
            /\ portal.shutdown.pc = "idle" )
          => portal.callers[c1].context = portal.callers[c2].context
    /\ portal.shutdown.pc = "done" =>
          /\ \A i \in 1..Len(portal.created) : portal.created[i].closed
          /\ \A s \in Suppliers : portal.contexts[s] = 0

----------------------------------------------------------------------------
(* Claims about expiry *)

\* negotiation n is in_progress and its stored expiresAt has passed
Overdue(n) ==
    /\ n \in 1..Len(negotiations)
    /\ negotiations[n].status = "in_progress"
    /\ negotiations[n].expiryPassed

\* C25: a negotiation that is still in_progress when its stored expiresAt
\* passes eventually leaves in_progress for expired, with the runner and its
\* timer scheduled fairly and without a further reply from the supplier (a
\* reply that settles it first takes it out of the claim's case).
C25_OverdueEventuallyExpires ==
    \A n \in NegotiationIds :
        Overdue(n) ~> (n \in 1..Len(negotiations) /\ negotiations[n].status # "in_progress")

----------------------------------------------------------------------------
(* Claims about stored stockout predictions *)

\* the stored predictions for inventory item i
StoredFor(i) ==
    { k \in 1..Len(stockoutPredictions.rows) :
        stockoutPredictions.rows[k].inventoryItemId = i }

\* the last run that returned predictions
LastRun == stockoutPredictions.runs

\* C26: stockout predictions are recomputed, not accumulated: after any
\* sequence of forecast runs an inventory item has at most one stored
\* StockoutPrediction, and it is the one of the most recent run.
C26_OnePredictionPerItem ==
    \A i \in 1..Len(inventoryItems) :
        /\ Cardinality(StoredFor(i)) <= 1
        /\ last.op = "predict_stockouts" /\ last.success =>
              \A k \in StoredFor(i) : stockoutPredictions.rows[k].createdInRun = LastRun

----------------------------------------------------------------------------
(* Claims about the AgentTask record of a job *)

\* job j has left the queue: processed to the end, or failed for good
JobOver(j) == jobs[j].state \in {"completed", "failed"}

\* C27: every job added through queueTask has an AgentTask record, created as
\* pending, and once the job has been processed the record carries its
\* outcome, completed or failed: no record is pending after its job is over.
C27_RecordFollowsJob ==
    /\ Len(agentTasks) = Len(jobs)
    /\ \A j \in JobIds :
          /\ agentTasks[j].status \in {"pending", "completed", "failed"}
          /\ JobOver(j) => agentTasks[j].status \in {"completed", "failed"}

----------------------------------------------------------------------------
(* Claims about failed negotiation operations *)

\* the step is an initiateNegotiation or processNegotiationResponse call that
\* returns success = false
FailedNegotiationCall ==
    /\ last'.op \in {"initiate_negotiation", "process_response"}
    /\ ~last'.success
    /\ <<negotiations, outbox, last>> # <<negotiations', outbox', last'>>

\* the fields of a negotiation that a failed call must not touch
Settled(neg) == <<neg.status, neg.hasFinalTerms, neg.savings, neg.counterOffers>>

\* C28: a failed negotiation operation leaves the negotiation state untouched:
\* when initiateNegotiation or processNegotiationResponse returns
\* success = false, the call has created no Negotiation record and the
\* status, finalTerms, savings and counterOffers of every existing
\* negotiation are what they were before the call.
C28_FailedCallChangesNothing ==
    [][FailedNegotiationCall =>
          /\ Len(negotiations') = Len(negotiations)
          /\ \A n \in 1..Len(negotiations) :
                Settled(negotiations'[n]) = Settled(negotiations[n])]_vars

----------------------------------------------------------------------------
(* Claims about retried negotiation jobs *)

InitiateJobs == { j \in JobIds : jobs[j].taskType = "initiate_negotiation" }

InitialEmailsSent == SumSeq([n \in 1..Len(outbox) |-> outbox[n].initial])

\* job j is put back for another attempt in this step
Retried(j) ==
    /\ j \in JobIds
    /\ jobs[j].state = "active"
    /\ jobs'[j].state = "delayed"

\* C30: queue retries do not repeat side effects: over all attempts of a
\* queued initiate_negotiation job at most one Negotiation record is created
\* and at most one initial email is sent, and a job is executed again only if
\* the worker's run did not finish with a Result.
C30_RetriesRepeatNothing ==
    [][/\ Len(negotiations') <= Cardinality(InitiateJobs')
       /\ InitialEmailsSent' <= Cardinality(InitiateJobs')
       /\ \A j \in InitiateJobs : Retried(j) => last'.threw]_vars

====
